---- MODULE Spec2Model ----
(***************************************************************************)
(* OAuthKitchen analysis core: the permission catalog (PermissionTranslator),*)
(* the risk scoring engine (RiskScorer) and the shadow OAuth detector      *)
(* (ShadowOAuthDetector), over a snapshot of service principals.           *)
(*                                                                         *)
(* Floating point weights are kept in tenths (1.3 is 13), weighted sums in *)
(* tenths, and _calculate_total works in hundredths, so that int() is an   *)
(* exact truncation.                                                       *)
(***************************************************************************)
EXTENDS Integers, Sequences, FiniteSets, TLC

VARIABLES rules, rules_path, config, service_principals, sign_in_data_available,
          risk_scores, critical_count, high_risk_count, shadow_findings,
          translated, pc, raised, loading, high_impact_permissions,
          blast_radius, previous_findings, calculated_total

vars == <<rules, rules_path, config, service_principals, sign_in_data_available,
          risk_scores, critical_count, high_risk_count, shadow_findings,
          translated, pc, raised, loading, high_impact_permissions,
          blast_radius, previous_findings,
                   calculated_total>>

(***************************************************************************)
(* Bounds of the model.                                                    *)
(***************************************************************************)
MaxSPs == 2
MaxGrants == 1
\* the longest list of factors handed to _calculate_total
MaxFactors == 2
\* the most password credentials of a linked registration
MaxCredentials == 2

(***************************************************************************)
(* Option values: <<>> is None, <<v>> is the value v.                      *)
(***************************************************************************)
None == <<>>
Some(v) == <<v>>
IsNone(o) == o = <<>>

Range(s) == {s[i] : i \in 1..Len(s)}

Max(a, b) == IF a >= b THEN a ELSE b
Min(a, b) == IF a <= b THEN a ELSE b

\* Python int(): truncation toward zero of n/d.
Trunc(n, d) == IF n >= 0 THEN n \div d ELSE -((-n) \div d)

RECURSIVE SetToSeq(_)
SetToSeq(S) ==
    IF S = {} THEN <<>>
    ELSE LET x == CHOOSE y \in S : TRUE IN <<x>> \o SetToSeq(S \ {x})

RECURSIVE SumSeq(_)
SumSeq(s) == IF s = <<>> THEN 0 ELSE Head(s) + SumSeq(Tail(s))

(***************************************************************************)
(* Permission strings and str.lower().                                     *)
(***************************************************************************)
DEFAULT_ACCESS == "Default Access"

Lower(s) ==
    CASE s = "Directory.ReadWrite.All" -> "directory.readwrite.all"
      [] s = "Mail.Read" -> "mail.read"
      [] s = "MAIL.READ" -> "mail.read"
      [] s = "User.Read" -> "user.read"
      [] s = "Custom.Unknown.Scope" -> "custom.unknown.scope"
      [] s = "Default Access" -> "default access"
      [] s = "Tenant_Takeover" -> "tenant_takeover"
      [] OTHER -> s

\* shadow.py HIGH_IMPACT_SCOPES, the fixed watch-list.
HIGH_IMPACT_SCOPES == {
    "Directory.ReadWrite.All",
    "RoleManagement.ReadWrite.Directory",
    "Application.ReadWrite.All",
    "AppRoleAssignment.ReadWrite.All",
    "Mail.ReadWrite",
    "Mail.Read",
    "Files.ReadWrite.All",
    "Files.Read.All",
    "Sites.ReadWrite.All",
    "User.ReadWrite.All",
    "Group.ReadWrite.All",
    "GroupMember.ReadWrite.All",
    "Chat.Read.All",
    "ChannelMessage.Read.All"
}

(***************************************************************************)
(* PermissionTranslator: the catalog.                                      *)
(*                                                                         *)
(* A rules document is missing, unparseable, or a parsed mapping: a        *)
(* sequence of <<resource, permissions>> where permissions is a sequence   *)
(* of entries [name, data]; data is None or a record of optional fields,   *)
(* and an entry under a null key has no name.  A document whose top level  *)
(* is not a mapping has kind "sequence".                                   *)
(***************************************************************************)
Entry(name, impact, category) ==
    [name |-> name, data |-> Some([impact_score |-> impact, category |-> category])]

Resource(resource, is_dict, permissions) ==
    [resource |-> resource, is_dict |-> is_dict, permissions |-> permissions]

\* The shipped rules/permissions.yaml as far as the tests pin it down.
DefaultDoc ==
    [kind |-> "ok",
     data |-> << Resource("microsoft_graph", TRUE, <<
                     Entry("Directory.ReadWrite.All", Some(100), Some("tenant_takeover")),
                     Entry("Mail.Read", Some(70), Some("data_exfiltration")),
                     Entry("User.Read", Some(10), Some("read_only")),
                     Entry("offline_access", Some(40), Some("persistence")) >>) >>]

\* A document with boundary impact scores and omitted fields.
EdgeDoc ==
    [kind |-> "ok",
     data |-> << Resource("microsoft_graph", TRUE, <<
                     Entry("Directory.ReadWrite.All", None, Some("Tenant_Takeover")),
                     Entry("Mail.Read", Some(71), None),
                     Entry("User.Read", Some(1), Some("read_only")),
                     Entry("offline_access", Some(0), Some("persistence")) >>) >>]

\* Two resource groups, one of them not a mapping, and a key that differs
\* from an earlier one in case only.
TwoResourceDoc ==
    [kind |-> "ok",
     data |-> << Resource("microsoft_graph", TRUE, <<
                     Entry("Mail.Read", Some(70), Some("data_exfiltration")) >>),
                 Resource("version", FALSE, <<>>),
                 Resource("custom_api", TRUE, <<
                     Entry("MAIL.READ", Some(20), Some("read_only")),
                     Entry("Custom.Unknown.Scope", Some(55), Some("lateral_movement")) >>) >>]

\* A document with impact scores next to the scorer's cut-offs.
BoundaryDoc ==
    [kind |-> "ok",
     data |-> << Resource("microsoft_graph", TRUE, <<
                     Entry("Directory.ReadWrite.All", Some(35), Some("tenant_takeover")),
                     Entry("Mail.Read", Some(69), Some("data_exfiltration")) >>) >>]

MissingDoc == [kind |-> "missing", data |-> <<>>]
UnparseableDoc == [kind |-> "unparseable", data |-> <<>>]

\* "Mail.Read:" with nothing after the colon: perm_data is None
BodylessEntry(name) == [name |-> name, data |-> None]

\* "~: {...}": perm_name is None
KeylessEntry(impact, category) ==
    [data |-> Some([impact_score |-> impact, category |-> category])]

\* A parseable document with one entry without a body between two
\* well-formed entries.
BodylessDoc ==
    [kind |-> "ok",
     data |-> << Resource("microsoft_graph", TRUE, <<
                     Entry("Directory.ReadWrite.All", Some(100), Some("tenant_takeover")),
                     BodylessEntry("Mail.Read"),
                     Entry("User.Read", Some(10), Some("read_only")) >>) >>]

\* A parseable document whose first group ends with an entry under a null
\* key, followed by a well-formed group.
KeylessDoc ==
    [kind |-> "ok",
     data |-> << Resource("microsoft_graph", TRUE, <<
                     Entry("Mail.Read", Some(70), Some("data_exfiltration")),
                     KeylessEntry(Some(50), Some("persistence")) >>),
                 Resource("custom_api", TRUE, <<
                     Entry("User.Read", Some(10), Some("read_only")) >>) >>]

\* A parseable document that is a YAML list, not a mapping
SequenceDoc == [kind |-> "sequence", data |-> <<>>]

Docs == {DefaultDoc, EdgeDoc, BoundaryDoc, TwoResourceDoc, MissingDoc, UnparseableDoc,
         BodylessDoc, KeylessDoc, SequenceDoc}

\* key = perm_name.lower() on a null key, then {**perm_data} on a null body;
\* None when the entry loads
EntryError(e) ==
    IF "name" \notin DOMAIN e THEN Some("AttributeError")
    ELSE IF IsNone(e.data) THEN Some("TypeError")
    ELSE None

Loaded(rs, exception) == [rules |-> rs, raised |-> exception]

\* the entries in the order the two loops of _load_rules visit them
RECURSIVE Flatten(_)
Flatten(data) ==
    IF data = <<>> THEN <<>>
    ELSE (IF Head(data).is_dict
          THEN [j \in DOMAIN Head(data).permissions |->
                   [resource |-> Head(data).resource,
                    entry |-> Head(data).permissions[j]]]
          ELSE <<>>) \o Flatten(Tail(data))

\* self.rules[key] = {"resource": resource, **perm_data}; the loop ends at
\* the first entry that raises, with the entries before it in the map
RECURSIVE LoadPermissions(_, _, _)
LoadPermissions(rs, resource, perms) ==
    IF perms = <<>> THEN Loaded(rs, None)
    ELSE LET e == Head(perms) IN
         IF ~IsNone(EntryError(e)) THEN Loaded(rs, EntryError(e))
         ELSE LET key == Lower(e.name)
                  rule == [resource |-> resource,
                           impact_score |-> e.data[1].impact_score,
                           category |-> e.data[1].category]
                  rs2 == [k \in (DOMAIN rs) \cup {key} |->
                             IF k = key THEN rule ELSE rs[k]]
              IN LoadPermissions(rs2, resource, Tail(perms))

RECURSIVE LoadResources(_, _)
LoadResources(rs, data) ==
    IF data = <<>> THEN Loaded(rs, None)
    ELSE IF Head(data).is_dict
         THEN LET r == LoadPermissions(rs, Head(data).resource,
                                       Head(data).permissions)
              IN IF IsNone(r.raised) THEN LoadResources(r.rules, Tail(data))
                 ELSE r
         ELSE LoadResources(rs, Tail(data))

\* _load_rules on the rules map rs (empty at construction and after clear()):
\* the map it leaves and the exception it lets through, if any.  Only
\* yaml.YAMLError and OSError are caught.
_load_rules(rs, doc) ==
    IF doc.kind = "missing" THEN Loaded(rs, None)
    ELSE IF doc.kind = "unparseable" THEN Loaded(rs, None)
    ELSE IF doc.kind = "sequence" THEN Loaded(rs, Some("AttributeError"))
    ELSE LoadResources(rs, doc.data)

LoadRules(rs, doc) == _load_rules(rs, doc).rules

EmptyRules == <<>>

ParseCategory(category_str) ==
    LET c == Lower(category_str) IN
    CASE c = "read_only" -> "READ_ONLY"
      [] c = "data_exfiltration" -> "DATA_EXFILTRATION"
      [] c = "privilege_escalation" -> "PRIVILEGE_ESCALATION"
      [] c = "tenant_takeover" -> "TENANT_TAKEOVER"
      [] c = "persistence" -> "PERSISTENCE"
      [] c = "lateral_movement" -> "LATERAL_MOVEMENT"
      [] OTHER -> "UNKNOWN"

UNKNOWN_IMPACT == 30

\* variant: the lookup key is not lower-cased
TranslateIn_case_sensitive(rs, permission) ==
    LET key == permission IN
    IF key \in DOMAIN rs
    THEN LET rule == rs[key] IN
         [permission |-> permission,
          category |-> ParseCategory(IF IsNone(rule.category) THEN "unknown"
                                     ELSE rule.category[1]),
          impact_score |-> IF IsNone(rule.impact_score) THEN 30
                           ELSE rule.impact_score[1],
          is_known |-> TRUE]
    ELSE [permission |-> permission,
          category |-> "UNKNOWN",
          impact_score |-> UNKNOWN_IMPACT,
          is_known |-> FALSE]

\* variant: a permission without a rule is rated harmless
TranslateIn_unknown_is_zero(rs, permission) ==
    LET key == Lower(permission) IN
    IF key \in DOMAIN rs
    THEN LET rule == rs[key] IN
         [permission |-> permission,
          category |-> ParseCategory(IF IsNone(rule.category) THEN "unknown"
                                     ELSE rule.category[1]),
          impact_score |-> IF IsNone(rule.impact_score) THEN 30
                           ELSE rule.impact_score[1],
          is_known |-> TRUE]
    ELSE [permission |-> permission,
          category |-> "UNKNOWN",
          impact_score |-> 0,
          is_known |-> FALSE]

\* PermissionTranslator.translate against the rules map rs.
TranslateIn(rs, permission) ==
    LET key == Lower(permission) IN
    IF key \in DOMAIN rs
    THEN LET rule == rs[key] IN
         [permission |-> permission,
          category |-> ParseCategory(IF IsNone(rule.category) THEN "unknown"
                                     ELSE rule.category[1]),
          impact_score |-> IF IsNone(rule.impact_score) THEN 30
                           ELSE rule.impact_score[1],
          is_known |-> TRUE]
    ELSE [permission |-> permission,
          category |-> "UNKNOWN",
          impact_score |-> UNKNOWN_IMPACT,
          is_known |-> FALSE]

(***************************************************************************)
(* Configuration (config.py): allow/deny lists, ScoringWeights in tenths,  *)
(* ThresholdConfig in days.                                                *)
(***************************************************************************)
application_permission_multiplier == 15
delegated_permission_multiplier == 10
user_consent_weight == 12
no_verified_publisher_weight == 13
external_multi_tenant_weight == 12
first_party_microsoft_weight == 3
no_owner_weight == 13
unused_high_privilege_weight == 14
credential_expiry_critical == 7
inactive_days_threshold == 90
credential_age_concern == 365

ScoringWeights ==
    [application_permission_multiplier |-> application_permission_multiplier,
     delegated_permission_multiplier |-> delegated_permission_multiplier,
     user_consent_weight |-> user_consent_weight,
     no_verified_publisher_weight |-> no_verified_publisher_weight,
     external_multi_tenant_weight |-> external_multi_tenant_weight,
     first_party_microsoft_weight |-> first_party_microsoft_weight,
     no_owner_weight |-> no_owner_weight,
     unused_high_privilege_weight |-> unused_high_privilege_weight]

ThresholdConfig ==
    [credential_expiry_critical |-> credential_expiry_critical,
     inactive_days_threshold |-> inactive_days_threshold,
     credential_age_concern |-> credential_age_concern]

\* Config(): the defaults, empty allow and deny lists.
DefaultConfig ==
    [allowed_app_ids |-> {}, denied_app_ids |-> {},
     scoring |-> ScoringWeights, thresholds |-> ThresholdConfig]

(***************************************************************************)
(* models.py: the ServicePrincipal properties the engines read.            *)
(***************************************************************************)
\* OAuth2PermissionGrant.scopes: the whitespace-split scope string, kept
\* here as the sequence of its tokens.
scopes(grant) == SelectSeq(grant.scope, LAMBDA t : t # "")

\* A grant whose scope is None (the collector keeps a JSON null) has no scope
\* field here: self.scope.split() raises AttributeError on it.
HasMalformedGrant(sp) ==
    \E i \in DOMAIN sp.oauth2_permission_grants :
        "scope" \notin DOMAIN sp.oauth2_permission_grants[i]

has_verified_publisher(sp) ==
    ~IsNone(sp.verified_publisher) /\ sp.verified_publisher[1] # ""

has_owners(sp) == Len(sp.owners) > 0

has_delegated_grants(sp) == Len(sp.oauth2_permission_grants) > 0

all_delegated_scopes(sp) ==
    UNION {Range(scopes(sp.oauth2_permission_grants[i])) :
              i \in 1..Len(sp.oauth2_permission_grants)}

\* role_value is None or a string; None and "" are falsy.
all_app_role_values(sp) ==
    {sp.app_role_assignments[i].role_value[1] :
        i \in {j \in 1..Len(sp.app_role_assignments) :
                 /\ ~IsNone(sp.app_role_assignments[j].role_value)
                 /\ sp.app_role_assignments[j].role_value[1] # ""}}

consent_user_count(sp) == Cardinality(sp.unique_consenting_users)

all_credentials(app) == app.password_credentials \o app.key_credentials

\* Application.expiring_credentials: days remaining of the credentials that
\* expire within 90 days, sorted ascending.
RECURSIVE SortAsc(_)
SortAsc(s) ==
    IF s = <<>> THEN <<>>
    ELSE LET i == CHOOSE k \in 1..Len(s) :
                     /\ \A j \in 1..Len(s) : s[k] <= s[j]
                     /\ \A j \in 1..(k - 1) : s[j] # s[k]
         IN <<s[i]>> \o SortAsc(SubSeq(s, 1, i - 1) \o SubSeq(s, i + 1, Len(s)))

expiring_credentials(app) ==
    LET creds == all_credentials(app)
        sel == SelectSeq(creds, LAMBDA c :
                  /\ ~IsNone(c.days_until_expiry)
                  /\ 0 <= c.days_until_expiry[1]
                  /\ c.days_until_expiry[1] <= 90)
    IN SortAsc([i \in 1..Len(sel) |-> sel[i].days_until_expiry[1]])

(***************************************************************************)
(* RiskScorer (analyzers/scoring.py).                                      *)
(***************************************************************************)
CRITICAL_THRESHOLD == 80
HIGH_THRESHOLD == 60
MEDIUM_THRESHOLD == 40

RiskFactor(name, perm, score, weight) ==
    [name |-> name, perm |-> perm, score |-> score, weight |-> weight]

\* the real role values: not empty and not the "Default Access" sentinel
IsRealRole(role_value) == role_value # "" /\ role_value # DEFAULT_ACCESS

DelegatedFactors(rs, cfg, sp) ==
    LET ss == SetToSeq(all_delegated_scopes(sp))
        fs == [i \in 1..Len(ss) |->
                 RiskFactor("Delegated", ss[i],
                     Trunc(TranslateIn(rs, ss[i]).impact_score
                             * cfg.scoring.delegated_permission_multiplier, 10),
                     10)]
    IN SelectSeq(fs, LAMBDA f : f.score > 0)

\* variant: application roles weighted with the delegated multiplier
ApplicationFactors_delegated_multiplier(rs, cfg, sp) ==
    LET vs == SetToSeq({v \in all_app_role_values(sp) : IsRealRole(v)})
        fs == [i \in 1..Len(vs) |->
                 RiskFactor("Application", vs[i],
                     Trunc(TranslateIn(rs, vs[i]).impact_score
                             * cfg.scoring.delegated_permission_multiplier, 10),
                     10)]
    IN SelectSeq(fs, LAMBDA f : f.score > 0)

ApplicationFactors(rs, cfg, sp) ==
    LET vs == SetToSeq({v \in all_app_role_values(sp) : IsRealRole(v)})
        fs == [i \in 1..Len(vs) |->
                 RiskFactor("Application", vs[i],
                     Trunc(TranslateIn(rs, vs[i]).impact_score
                             * cfg.scoring.application_permission_multiplier, 10),
                     10)]
    IN SelectSeq(fs, LAMBDA f : f.score > 0)

\* variant: any consent type other than admin counts as user consent
has_user_consent_non_admin(sp) ==
    \E i \in 1..Len(sp.oauth2_permission_grants) :
        sp.oauth2_permission_grants[i].consent_type # "ADMIN"

has_user_consent(sp) ==
    \E i \in 1..Len(sp.oauth2_permission_grants) :
        sp.oauth2_permission_grants[i].consent_type = "USER"

UserConsentFactors(cfg, sp) ==
    IF has_user_consent(sp)
    THEN <<RiskFactor("User Consent Present", "", 20, cfg.scoring.user_consent_weight)>>
    ELSE <<>>

_score_permissions(rs, cfg, sp) ==
    DelegatedFactors(rs, cfg, sp) \o ApplicationFactors(rs, cfg, sp)
        \o UserConsentFactors(cfg, sp)

\* variant: the first-party branch does not return early
_score_trust_factors_no_early_return(cfg, sp) ==
    (IF sp.app_type = "FIRST_PARTY_MICROSOFT"
     THEN <<RiskFactor("Microsoft First-Party", "", -30,
                       cfg.scoring.first_party_microsoft_weight)>>
     ELSE <<>>)
    \o
    (IF ~has_verified_publisher(sp)
     THEN <<RiskFactor("No Verified Publisher", "", 15,
                       cfg.scoring.no_verified_publisher_weight)>>
     ELSE <<>>)
    \o
    (IF sp.app_type = "THIRD_PARTY_MULTI_TENANT"
     THEN <<RiskFactor("Third-Party Multi-Tenant", "", 10,
                       cfg.scoring.external_multi_tenant_weight)>>
     ELSE IF sp.app_type = "EXTERNAL_UNKNOWN"
     THEN <<RiskFactor("Unknown Origin", "", 20,
                       cfg.scoring.external_multi_tenant_weight)>>
     ELSE <<>>)

_score_trust_factors(cfg, sp) ==
    IF sp.app_type = "FIRST_PARTY_MICROSOFT"
    THEN <<RiskFactor("Microsoft First-Party", "", -30,
                      cfg.scoring.first_party_microsoft_weight)>>
    ELSE (IF ~has_verified_publisher(sp)
          THEN <<RiskFactor("No Verified Publisher", "", 15,
                            cfg.scoring.no_verified_publisher_weight)>>
          ELSE <<>>)
         \o
         (IF sp.app_type = "THIRD_PARTY_MULTI_TENANT"
          THEN <<RiskFactor("Third-Party Multi-Tenant", "", 10,
                            cfg.scoring.external_multi_tenant_weight)>>
          ELSE IF sp.app_type = "EXTERNAL_UNKNOWN"
          THEN <<RiskFactor("Unknown Origin", "", 20,
                            cfg.scoring.external_multi_tenant_weight)>>
          ELSE <<>>)

\* max(translated.impact_score) over a set of permission strings, from 0
MaxImpact(rs, perms) ==
    LET is == {TranslateIn(rs, p).impact_score : p \in perms} \cup {0}
    IN CHOOSE m \in is : \A x \in is : x <= m

\* variant: the ownership check is dropped
_score_ownership_dropped(rs, cfg, sp) == <<>>

_score_ownership(rs, cfg, sp) ==
    IF ~has_owners(sp)
    THEN LET max_impact ==
                 MaxImpact(rs, all_delegated_scopes(sp)
                               \cup {v \in all_app_role_values(sp) : v # DEFAULT_ACCESS})
         IN <<RiskFactor("No Owners", "",
                         IF max_impact >= 70 THEN 15 ELSE 10,
                         cfg.scoring.no_owner_weight)>>
    ELSE <<>>

_score_activity(rs, cfg, sp) ==
    IF IsNone(sp.sign_in_activity) \/ ~sp.sign_in_activity[1].data_available
    THEN <<>>
    ELSE LET days_inactive == sp.sign_in_activity[1].days_since_last_activity
             threshold == cfg.thresholds.inactive_days_threshold
         IN IF IsNone(days_inactive)
            THEN IF all_delegated_scopes(sp) # {} \/ all_app_role_values(sp) # {}
                 THEN <<RiskFactor("Never Used", "", 15,
                                   cfg.scoring.unused_high_privilege_weight)>>
                 ELSE <<>>
            ELSE IF days_inactive[1] > threshold
            THEN IF MaxImpact(rs, all_delegated_scopes(sp)) >= 70
                 THEN <<RiskFactor("Inactive High-Privilege", "", 25,
                                   cfg.scoring.unused_high_privilege_weight)>>
                 ELSE <<>>
            ELSE <<>>

_score_credentials(cfg, sp) ==
    IF IsNone(sp.linked_application) THEN <<>>
    ELSE LET app == sp.linked_application[1]
             exp == SelectSeq(expiring_credentials(app),
                       LAMBDA days : days <= cfg.thresholds.credential_expiry_critical)
             old == SelectSeq(all_credentials(app), LAMBDA c :
                       /\ ~IsNone(c.age_days)
                       /\ c.age_days[1] # 0
                       /\ c.age_days[1] > cfg.thresholds.credential_age_concern)
         IN [i \in 1..Len(exp) |-> RiskFactor("Credential Expiring", "", 10, 12)]
            \o [i \in 1..Len(old) |-> RiskFactor("Old Credential", "", 5, 10)]

\* sum of score * weight, in tenths
WeightedSum(factors) ==
    SumSeq([i \in 1..Len(factors) |-> factors[i].score * factors[i].weight])

\* variant: no final clamp to 0..100
_calculate_total_unclamped(factors) ==
    IF factors = <<>> THEN 0
    ELSE LET total == WeightedSum(factors) * 10
             scaled == IF total > 10000 THEN 10000 + Trunc(total - 10000, 10)
                       ELSE total
             capped == IF scaled > 12000 THEN 12000 ELSE scaled
         IN Trunc(capped, 100)

\* variant: no floor at 0
_calculate_total_no_floor(factors) ==
    IF factors = <<>> THEN 0
    ELSE LET total == WeightedSum(factors) * 10
             scaled == IF total > 10000 THEN 10000 + Trunc(total - 10000, 10)
                       ELSE total
             capped == IF scaled > 12000 THEN 12000 ELSE scaled
         IN Min(100, Trunc(capped, 100))

\* _calculate_total, in hundredths: the excess over 100 is scaled by 0.1,
\* the result capped at 120, truncated, and clamped to 0..100.
_calculate_total(factors) ==
    IF factors = <<>> THEN 0
    ELSE LET total == WeightedSum(factors) * 10
             scaled == IF total > 10000 THEN 10000 + Trunc(total - 10000, 10)
                       ELSE total
             capped == IF scaled > 12000 THEN 12000 ELSE scaled
         IN Max(0, Min(100, Trunc(capped, 100)))

RiskLevel(total) ==
    IF total >= CRITICAL_THRESHOLD THEN "Critical"
    ELSE IF total >= HIGH_THRESHOLD THEN "High"
    ELSE IF total >= MEDIUM_THRESHOLD THEN "Medium"
    ELSE "Low"

DenyListFactors(cfg, sp) ==
    IF sp.app_id \in cfg.denied_app_ids
    THEN <<RiskFactor("Deny List", "", 100, 10)>>
    ELSE <<>>

\* variant: the deny list short-circuits like the allow list
AccumulatedFactors_short_circuit(rs, cfg, sp) ==
    IF sp.app_id \in cfg.denied_app_ids
    THEN DenyListFactors(cfg, sp)
    ELSE _score_permissions(rs, cfg, sp)
            \o _score_trust_factors(cfg, sp)
            \o _score_ownership(rs, cfg, sp)
            \o _score_activity(rs, cfg, sp)
            \o _score_credentials(cfg, sp)

\* the factors accumulated for an identity that is not allow-listed
AccumulatedFactors(rs, cfg, sp) ==
    DenyListFactors(cfg, sp)
        \o _score_permissions(rs, cfg, sp)
        \o _score_trust_factors(cfg, sp)
        \o _score_ownership(rs, cfg, sp)
        \o _score_activity(rs, cfg, sp)
        \o _score_credentials(cfg, sp)

\* variant: the deny list is checked before the allow list
score_service_principal_deny_first(rs, cfg, sp) ==
    IF sp.app_id \in cfg.allowed_app_ids /\ sp.app_id \notin cfg.denied_app_ids
    THEN [total_score |-> 0, risk_level |-> "Allowed",
          factors |-> <<RiskFactor("Allow List", "", 0, 10)>>]
    ELSE LET factors == AccumulatedFactors(rs, cfg, sp)
             total == _calculate_total(factors)
         IN [total_score |-> total, risk_level |-> RiskLevel(total),
             factors |-> factors]

score_service_principal(rs, cfg, sp) ==
    IF sp.app_id \in cfg.allowed_app_ids
    THEN [total_score |-> 0, risk_level |-> "Allowed",
          factors |-> <<RiskFactor("Allow List", "", 0, 10)>>]
    ELSE LET factors == AccumulatedFactors(rs, cfg, sp)
             total == _calculate_total(factors)
         IN [total_score |-> total, risk_level |-> RiskLevel(total),
             factors |-> factors]

(***************************************************************************)
(* ShadowOAuthDetector (analyzers/shadow.py).                              *)
(***************************************************************************)
ShadowOAuthFinding(finding_type, severity, sp, affected_scopes, affected_user_count) ==
    [finding_type |-> finding_type, severity |-> severity,
     service_principal_id |-> sp.object_id,
     affected_scopes |-> affected_scopes,
     affected_user_count |-> affected_user_count]

_detect_external_delegated_grants(sp) ==
    IF sp.app_type \notin {"THIRD_PARTY_MULTI_TENANT", "EXTERNAL_UNKNOWN"} THEN <<>>
    ELSE IF ~has_delegated_grants(sp) THEN <<>>
    ELSE LET high_impact == all_delegated_scopes(sp) \cap HIGH_IMPACT_SCOPES
             all_scopes == all_delegated_scopes(sp)
         IN IF high_impact # {}
            THEN <<ShadowOAuthFinding("external_delegated_high_impact", "High", sp,
                                      high_impact, consent_user_count(sp))>>
            ELSE IF all_scopes # {}
            THEN <<ShadowOAuthFinding("external_delegated", "Medium", sp,
                                      all_scopes, consent_user_count(sp))>>
            ELSE <<>>

\* variant: every grant that is not admin-consented counts as user consent
_detect_user_consent_high_impact_non_admin(sp) ==
    LET non_admin_scopes ==
            UNION {Range(scopes(sp.oauth2_permission_grants[i])) :
                      i \in {j \in 1..Len(sp.oauth2_permission_grants) :
                               sp.oauth2_permission_grants[j].consent_type # "ADMIN"}}
        high_impact == non_admin_scopes \cap HIGH_IMPACT_SCOPES
    IN IF high_impact # {}
       THEN <<ShadowOAuthFinding("user_consent_high_impact", "High", sp,
                                 high_impact, consent_user_count(sp))>>
       ELSE <<>>

user_consented_scopes(sp) ==
    UNION {Range(scopes(sp.oauth2_permission_grants[i])) :
              i \in {j \in 1..Len(sp.oauth2_permission_grants) :
                       sp.oauth2_permission_grants[j].consent_type = "USER"}}

_detect_user_consent_high_impact(sp) ==
    LET high_impact == user_consented_scopes(sp) \cap HIGH_IMPACT_SCOPES
    IN IF user_consented_scopes(sp) = {} THEN <<>>
       ELSE IF high_impact # {}
       THEN <<ShadowOAuthFinding("user_consent_high_impact", "High", sp,
                                 high_impact, consent_user_count(sp))>>
       ELSE <<>>

_detect_offline_access_risk(sp) ==
    IF "offline_access" \notin all_delegated_scopes(sp) THEN <<>>
    ELSE LET other_scopes == all_delegated_scopes(sp)
                                \ {"offline_access", "openid", "profile", "email"}
             high_impact == other_scopes \cap HIGH_IMPACT_SCOPES
         IN IF high_impact # {}
            THEN <<ShadowOAuthFinding("offline_access_high_impact", "Medium", sp,
                                      high_impact \cup {"offline_access"},
                                      consent_user_count(sp))>>
            ELSE <<>>

\* variant: exactly threshold days counts as inactive
_detect_inactive_privileged_at_threshold(cfg, sp, sida) ==
    IF ~sida THEN <<>>
    ELSE IF IsNone(sp.sign_in_activity) \/ ~sp.sign_in_activity[1].data_available
    THEN <<>>
    ELSE LET days_inactive == sp.sign_in_activity[1].days_since_last_activity
             threshold == cfg.thresholds.inactive_days_threshold
             is_inactive == IF IsNone(days_inactive) THEN TRUE
                            ELSE days_inactive[1] >= threshold
             all_perms == all_delegated_scopes(sp) \cup all_app_role_values(sp)
             high_impact == all_perms \cap HIGH_IMPACT_SCOPES
         IN IF ~is_inactive THEN <<>>
            ELSE IF high_impact # {}
            THEN <<ShadowOAuthFinding("inactive_privileged", "High", sp, high_impact, 0)>>
            ELSE <<>>

_detect_inactive_privileged(cfg, sp, sida) ==
    IF ~sida THEN <<>>
    ELSE IF IsNone(sp.sign_in_activity) \/ ~sp.sign_in_activity[1].data_available
    THEN <<>>
    ELSE LET days_inactive == sp.sign_in_activity[1].days_since_last_activity
             threshold == cfg.thresholds.inactive_days_threshold
             is_inactive == IF IsNone(days_inactive) THEN TRUE
                            ELSE days_inactive[1] > threshold
             all_perms == all_delegated_scopes(sp) \cup all_app_role_values(sp)
             high_impact == all_perms \cap HIGH_IMPACT_SCOPES
         IN IF ~is_inactive THEN <<>>
            ELSE IF high_impact # {}
            THEN <<ShadowOAuthFinding("inactive_privileged", "High", sp, high_impact, 0)>>
            ELSE <<>>

\* variant: the Medium finding is not an alternative of the High one
_detect_orphaned_privileged_both(sp) ==
    IF has_owners(sp) THEN <<>>
    ELSE LET all_perms == all_delegated_scopes(sp) \cup all_app_role_values(sp)
             high_impact == all_perms \cap HIGH_IMPACT_SCOPES
         IN (IF high_impact # {}
             THEN <<ShadowOAuthFinding("orphaned_privileged", "High", sp, high_impact, 0)>>
             ELSE <<>>)
            \o
            (IF all_perms # {}
             THEN <<ShadowOAuthFinding("orphaned_with_permissions", "Medium", sp,
                                       all_perms, 0)>>
             ELSE <<>>)

_detect_orphaned_privileged(sp) ==
    IF has_owners(sp) THEN <<>>
    ELSE LET all_perms == all_delegated_scopes(sp) \cup all_app_role_values(sp)
             high_impact == all_perms \cap HIGH_IMPACT_SCOPES
         IN IF high_impact # {}
            THEN <<ShadowOAuthFinding("orphaned_privileged", "High", sp, high_impact, 0)>>
            ELSE IF all_perms # {}
            THEN <<ShadowOAuthFinding("orphaned_with_permissions", "Medium", sp,
                                      all_perms, 0)>>
            ELSE <<>>

\* variant: the verified-publisher test is dropped
_detect_unknown_publisher_high_impact_unchecked(sp) ==
    IF sp.app_type = "TENANT_OWNED" THEN <<>>
    ELSE LET all_perms == all_delegated_scopes(sp) \cup all_app_role_values(sp)
             high_impact == all_perms \cap HIGH_IMPACT_SCOPES
         IN IF high_impact # {}
            THEN <<ShadowOAuthFinding("unverified_publisher_high_impact", "High", sp,
                                      high_impact, 0)>>
            ELSE <<>>

_detect_unknown_publisher_high_impact(sp) ==
    IF has_verified_publisher(sp) THEN <<>>
    ELSE IF sp.app_type = "TENANT_OWNED" THEN <<>>
    ELSE LET all_perms == all_delegated_scopes(sp) \cup all_app_role_values(sp)
             high_impact == all_perms \cap HIGH_IMPACT_SCOPES
         IN IF high_impact # {}
            THEN <<ShadowOAuthFinding("unverified_publisher_high_impact", "High", sp,
                                      high_impact, 0)>>
            ELSE <<>>

\* variant: the allow list is not consulted
IsSkipped_first_party_only(cfg, sp) == sp.app_type = "FIRST_PARTY_MICROSOFT"

\* the two skips at the head of the loop of detect
IsSkipped(cfg, sp) ==
    \/ sp.app_type = "FIRST_PARTY_MICROSOFT"
    \/ sp.app_id \in cfg.allowed_app_ids

\* _detect_offline_access_risk reads sp.all_delegated_scopes of every
\* identity that is not skipped, so a grant without scope raises there at
\* the latest
DetectRaises(cfg, sp) == ~IsSkipped(cfg, sp) /\ HasMalformedGrant(sp)

\* the six rules, in the order detect runs them
RunDetectionRules(cfg, sp, sida) ==
    _detect_external_delegated_grants(sp)
        \o _detect_user_consent_high_impact(sp)
        \o _detect_offline_access_risk(sp)
        \o _detect_inactive_privileged(cfg, sp, sida)
        \o _detect_orphaned_privileged(sp)
        \o _detect_unknown_publisher_high_impact(sp)

\* what one iteration of the loop of detect appends
FindingsOf(cfg, sp, sida) ==
    IF IsSkipped(cfg, sp) THEN <<>> ELSE RunDetectionRules(cfg, sp, sida)

RECURSIVE CollectFindings(_, _, _)
CollectFindings(cfg, sps, sida) ==
    IF sps = <<>> THEN <<>>
    ELSE FindingsOf(cfg, Head(sps), sida) \o CollectFindings(cfg, Tail(sps), sida)

severity_order(severity) ==
    CASE severity = "Critical" -> 0
      [] severity = "High" -> 1
      [] severity = "Medium" -> 2
      [] severity = "Low" -> 3
      [] OTHER -> 99

\* variant: a sort that is not stable (equal keys come out last-first)
RECURSIVE SortBySeverity_unstable(_)
SortBySeverity_unstable(fs) ==
    IF fs = <<>> THEN <<>>
    ELSE LET i == CHOOSE k \in 1..Len(fs) :
                     /\ \A j \in 1..Len(fs) :
                           severity_order(fs[k].severity) <= severity_order(fs[j].severity)
                     /\ \A j \in (k + 1)..Len(fs) :
                           severity_order(fs[j].severity) # severity_order(fs[k].severity)
         IN <<fs[i]>> \o SortBySeverity_unstable(SubSeq(fs, 1, i - 1)
                                                  \o SubSeq(fs, i + 1, Len(fs)))

\* list.sort(key=...): stable, ascending by key
RECURSIVE SortBySeverity(_)
SortBySeverity(fs) ==
    IF fs = <<>> THEN <<>>
    ELSE LET i == CHOOSE k \in 1..Len(fs) :
                     /\ \A j \in 1..Len(fs) :
                           severity_order(fs[k].severity) <= severity_order(fs[j].severity)
                     /\ \A j \in 1..(k - 1) :
                           severity_order(fs[j].severity) # severity_order(fs[k].severity)
         IN <<fs[i]>> \o SortBySeverity(SubSeq(fs, 1, i - 1) \o SubSeq(fs, i + 1, Len(fs)))

\* variant: only the identities that hold a permission the catalog rates at
\* 70 or more are examined
detect_rated_by_catalog(cfg, sps, sida) ==
    SortBySeverity(CollectFindings(cfg,
        SelectSeq(sps, LAMBDA sp :
            \/ IsSkipped(cfg, sp)
            \/ MaxImpact(rules, all_delegated_scopes(sp)
                                    \cup all_app_role_values(sp)) >= 70),
        sida))

detect(cfg, sps, sida) == SortBySeverity(CollectFindings(cfg, sps, sida))

(***************************************************************************)
(* RiskScorer.score_all: the loop over result.service_principals.          *)
(***************************************************************************)
RECURSIVE ScoreLoop(_, _, _, _)
\* variant: the counts are taken from the entries of the finished map
RECURSIVE ScoreLoop_counts_entries(_, _, _, _)
ScoreLoop_counts_entries(rs, cfg, sps, acc) ==
    IF sps = <<>> THEN acc
    ELSE LET sp == Head(sps)
             score == score_service_principal(rs, cfg, sp)
             scores2 == [k \in (DOMAIN acc.scores) \cup {sp.object_id} |->
                            IF k = sp.object_id THEN score ELSE acc.scores[k]]
         IN ScoreLoop_counts_entries(rs, cfg, Tail(sps),
                [scores |-> scores2,
                 critical_count |->
                     Cardinality({k \in DOMAIN scores2 :
                                     scores2[k].risk_level = "Critical"}),
                 high_count |->
                     Cardinality({k \in DOMAIN scores2 :
                                     scores2[k].risk_level = "High"})])

\* score_service_principal returns for an allow-listed identity before it
\* looks at a grant; otherwise _score_permissions reads every grant's scopes
ScoreRaises(cfg, sp) ==
    sp.app_id \notin cfg.allowed_app_ids /\ HasMalformedGrant(sp)

ScoreLoop(rs, cfg, sps, acc) ==
    IF sps = <<>> THEN acc
    ELSE LET sp == Head(sps)
             score == score_service_principal(rs, cfg, sp)
             scores2 == [k \in (DOMAIN acc.scores) \cup {sp.object_id} |->
                            IF k = sp.object_id THEN score ELSE acc.scores[k]]
         IN ScoreLoop(rs, cfg, Tail(sps),
                [scores |-> scores2,
                 critical_count |-> IF score.risk_level = "Critical"
                                    THEN acc.critical_count + 1
                                    ELSE acc.critical_count,
                 high_count |-> IF score.risk_level = "Critical" THEN acc.high_count
                                ELSE IF score.risk_level = "High"
                                THEN acc.high_count + 1
                                ELSE acc.high_count])

score_all(rs, cfg, sps) ==
    ScoreLoop(rs, cfg, sps, [scores |-> <<>>, critical_count |-> 0, high_count |-> 0])

(***************************************************************************)
(* The snapshot handed to the engines: bounded sets of identities.         *)
(***************************************************************************)
BoundedSeq(S, n) == UNION {[1..k -> S] : k \in 0..n}

AppTypes == {"FIRST_PARTY_MICROSOFT", "TENANT_OWNED",
             "THIRD_PARTY_MULTI_TENANT", "EXTERNAL_UNKNOWN"}
AppIds == {"a1", "a2"}

Grant(consent_type, scope) ==
    [consent_type |-> consent_type, scope |-> scope,
     principal_id |-> IF consent_type = "USER" THEN Some("user-1") ELSE None]

Grants == {Grant("ADMIN", <<"Directory.ReadWrite.All">>),
           Grant("ADMIN", <<"User.Read">>),
           Grant("ADMIN", <<"Mail.Read">>),
           Grant("USER", <<"Mail.Read", "offline_access">>),
           Grant("UNKNOWN", <<"Custom.Unknown.Scope">>)}

MalformedGrant(consent_type) ==
    [consent_type |-> consent_type, principal_id |-> None]

Assignment(role_value) == [role_value |-> role_value]

SignIn(data_available, days) ==
    Some([data_available |-> data_available, days_since_last_activity |-> days])

Credential(days, age) == [days_until_expiry |-> days, age_days |-> age]

Application(password_credentials, key_credentials) ==
    Some([password_credentials |-> password_credentials,
          key_credentials |-> key_credentials])

\* the orchestrator's unique_consenting_users: the principals of the grants
ConsentingUsers(grants) ==
    {grants[i].principal_id[1] :
        i \in {j \in 1..Len(grants) : ~IsNone(grants[j].principal_id)}}

ServicePrincipal(oid, aid, ty, vp, ow, gs, rs, sia, app) ==
    [object_id |-> oid, app_id |-> aid, app_type |-> ty,
     verified_publisher |-> vp, owners |-> ow,
     oauth2_permission_grants |-> gs, app_role_assignments |-> rs,
     sign_in_activity |-> sia, linked_application |-> app,
     unique_consenting_users |-> ConsentingUsers(gs)]

\* every identity over the given role lists, sign-in records and linked
\* registrations, with at most MaxGrants grants
Identities(roleLists, signIns, apps) ==
    {ServicePrincipal("sp-1", aid, ty, vp, ow, gs, rs, sia, app) :
        aid \in AppIds, ty \in AppTypes, vp \in {None, Some("pub-1")},
        ow \in {<<>>, <<"owner-1">>},
        gs \in BoundedSeq(Grants, MaxGrants),
        rs \in roleLists, sia \in signIns, app \in apps}

\* identities without a linked registration over every role list and sign-in
\* record, and identities with a linked registration holding credentials
ScoringDomain ==
    Identities({<<>>, <<Assignment(Some(DEFAULT_ACCESS))>>,
                <<Assignment(Some("Mail.Read"))>>,
                <<Assignment(Some("User.Read")), Assignment(None)>>},
               {None, SignIn(TRUE, None),
                SignIn(TRUE, Some(inactive_days_threshold)),
                SignIn(TRUE, Some(inactive_days_threshold + 1))},
               {None})
    \cup
    Identities({<<>>, <<Assignment(Some("Mail.Read"))>>},
               {SignIn(FALSE, None),
                SignIn(TRUE, Some(inactive_days_threshold + 1))},
               {Application(<<Credential(Some(credential_expiry_critical),
                                         Some(credential_age_concern + 1))>>,
                            <<Credential(None, None)>>)})

\* Configurations: the defaults, the defaults with allow and deny lists, and
\* a configuration with other (non-negative) weights.
ListsConfig ==
    [DefaultConfig EXCEPT !.allowed_app_ids = {"a1"},
                          !.denied_app_ids = {"a1", "a2"}]
AltConfig ==
    [DefaultConfig EXCEPT !.denied_app_ids = {"a1"},
                          !.scoring =
        [application_permission_multiplier |-> 20,
         delegated_permission_multiplier |-> 5,
         user_consent_weight |-> 10,
         no_verified_publisher_weight |-> 0,
         external_multi_tenant_weight |-> 30,
         first_party_microsoft_weight |-> 10,
         no_owner_weight |-> 1,
         unused_high_privilege_weight |-> 30]]
Configs == {DefaultConfig, ListsConfig, AltConfig}

(***************************************************************************)
(* Operations.  pc is the set of engine passes that have completed on the  *)
(* current snapshot.                                                       *)
(***************************************************************************)
\* an exception that ended the run: the operation that let it through
Raised(op, exception) == Some([op |-> op, exception |-> exception])

\* score_all has no handler around score_service_principal: an exception
\* leaves the loop before the result is assigned, and the caller's single
\* except clause ends the run
ScoreAll ==
    /\ IsNone(raised)
    /\ "score_all" \notin pc
    /\ IF \E i \in DOMAIN service_principals :
              ScoreRaises(config, service_principals[i])
       THEN /\ raised' = Raised("score_all", "AttributeError")
            /\ UNCHANGED <<risk_scores, critical_count, high_risk_count, pc>>
       ELSE /\ LET r == score_all(rules, config, service_principals)
               IN /\ risk_scores' = r.scores
                  /\ critical_count' = r.critical_count
                  /\ high_risk_count' = r.high_count
            /\ pc' = pc \cup {"score_all"}
            /\ UNCHANGED raised
    /\ UNCHANGED <<rules, rules_path, config, service_principals,
                   sign_in_data_available, shadow_findings, translated,
                   loading, high_impact_permissions, blast_radius, previous_findings,
                   calculated_total>>

\* variant: detect starts from a fresh aggregate and so drops the scores
Detect_resets_scores ==
    /\ IsNone(raised)
    /\ "detect" \notin pc
    /\ IF \E i \in DOMAIN service_principals :
              DetectRaises(config, service_principals[i])
       THEN /\ raised' = Raised("detect", "AttributeError")
            /\ UNCHANGED <<shadow_findings, pc, risk_scores, critical_count,
                           high_risk_count>>
       ELSE /\ shadow_findings' = detect(config, service_principals,
                                         sign_in_data_available)
            /\ risk_scores' = <<>>
            /\ critical_count' = 0
            /\ high_risk_count' = 0
            /\ pc' = pc \cup {"detect"}
            /\ UNCHANGED raised
    /\ UNCHANGED <<rules, rules_path, config, service_principals,
                   sign_in_data_available, translated, loading,
                   high_impact_permissions, blast_radius, previous_findings,
                   calculated_total>>

Detect ==
    /\ IsNone(raised)
    /\ "detect" \notin pc
    /\ IF \E i \in DOMAIN service_principals :
              DetectRaises(config, service_principals[i])
       THEN /\ raised' = Raised("detect", "AttributeError")
            /\ UNCHANGED <<shadow_findings, pc>>
       ELSE /\ shadow_findings' = detect(config, service_principals,
                                         sign_in_data_available)
            /\ pc' = pc \cup {"detect"}
            /\ UNCHANGED raised
    /\ UNCHANGED <<rules, rules_path, config, service_principals,
                   sign_in_data_available, risk_scores, critical_count,
                   high_risk_count, translated, loading,
                   high_impact_permissions, blast_radius, previous_findings,
                   calculated_total>>

\* AnalysisResult as the collector hands it over, and a constructed translator
InitResult ==
    /\ risk_scores = <<>>
    /\ critical_count = 0
    /\ high_risk_count = 0
    /\ shadow_findings = <<>>
    /\ translated = None
    /\ pc = {}
    /\ loading = None
    /\ high_impact_permissions = None
    /\ blast_radius = None
    /\ previous_findings = None
    /\ calculated_total = None

InitTranslator(docs) ==
    /\ rules_path \in docs
    /\ LET r == _load_rules(EmptyRules, rules_path)
       IN /\ rules = r.rules
          /\ raised = IF IsNone(r.raised) THEN None
                      ELSE Raised("__init__", r.raised[1])

(***************************************************************************)
(* SpecScore: score_all on one identity, for every identity of             *)
(* ScoringDomain under every configuration and catalog.                    *)
(***************************************************************************)
InitScore ==
    /\ config \in Configs
    /\ InitTranslator({DefaultDoc, EdgeDoc, MissingDoc})
    /\ service_principals \in {<<sp>> : sp \in ScoringDomain}
    /\ sign_in_data_available = TRUE
    /\ InitResult

NextScore == ScoreAll

SpecScore == InitScore /\ [][NextScore]_vars

(***************************************************************************)
(* SpecConsent: score_all on one identity, for identities that differ in   *)
(* their delegated grants and consent types.                               *)
(***************************************************************************)
ConsentDomain ==
    Identities({<<>>, <<Assignment(Some("Mail.Read"))>>}, {None}, {None})

InitConsent ==
    /\ config \in Configs
    /\ InitTranslator({DefaultDoc, MissingDoc})
    /\ service_principals \in {<<sp>> : sp \in ConsentDomain}
    /\ sign_in_data_available = TRUE
    /\ InitResult

NextConsent == ScoreAll

SpecConsent == InitConsent /\ [][NextConsent]_vars

(***************************************************************************)
(* SpecAnalyze: both engines, in either order, on one identity.            *)
(***************************************************************************)
AnalyzeDomain ==
    Identities({<<>>, <<Assignment(Some(DEFAULT_ACCESS))>>,
                <<Assignment(Some("Mail.Read"))>>},
               {None, SignIn(TRUE, None),
                SignIn(TRUE, Some(inactive_days_threshold))},
               {None})

InitAnalyze ==
    /\ config \in {DefaultConfig, ListsConfig}
    /\ InitTranslator({DefaultDoc, BoundaryDoc, MissingDoc})
    /\ service_principals \in {<<sp>> : sp \in AnalyzeDomain}
    /\ sign_in_data_available \in BOOLEAN
    /\ InitResult

NextAnalyze == ScoreAll \/ Detect

SpecAnalyze == InitAnalyze /\ [][NextAnalyze]_vars

(***************************************************************************)
(* Spec: both engines over a list of up to MaxSPs identities.              *)
(***************************************************************************)
RiskyGrants == <<Grant("USER", <<"Mail.Read", "offline_access">>)>>

\* first-party, and risky in every other respect
SpFirstParty ==
    ServicePrincipal("sp-fp", "a2", "FIRST_PARTY_MICROSOFT", None, <<>>,
                     RiskyGrants, <<Assignment(Some("Mail.Read"))>>,
                     SignIn(TRUE, None), None)
\* allow-listed under ListsConfig, and risky in every other respect
SpAllowed ==
    ServicePrincipal("sp-allowed", "a1", "THIRD_PARTY_MULTI_TENANT", None, <<>>,
                     RiskyGrants, <<Assignment(Some("Mail.Read"))>>,
                     SignIn(TRUE, None), None)
SpExternal ==
    ServicePrincipal("sp-ext", "a2", "THIRD_PARTY_MULTI_TENANT", None, <<>>,
                     <<Grant("ADMIN", <<"Directory.ReadWrite.All">>)>>, <<>>,
                     SignIn(TRUE, Some(inactive_days_threshold + 1)), None)
SpUserConsent ==
    ServicePrincipal("sp-user", "a2", "EXTERNAL_UNKNOWN", Some("pub-1"),
                     <<"owner-1">>, RiskyGrants, <<>>, None, None)
SpOrphan ==
    ServicePrincipal("sp-orphan", "a2", "TENANT_OWNED", None, <<>>,
                     <<Grant("ADMIN", <<"User.Read">>)>>, <<>>, None, None)
SpExternalMedium ==
    ServicePrincipal("sp-ext-med", "a2", "THIRD_PARTY_MULTI_TENANT", Some("pub-1"),
                     <<"owner-1">>, <<Grant("ADMIN", <<"User.Read">>)>>, <<>>,
                     None, None)
SpClean ==
    ServicePrincipal("sp-clean", "a2", "TENANT_OWNED", None, <<"owner-1">>,
                     <<>>, <<>>, None, None)

\* one grant arrived without its scope
SpMalformed ==
    ServicePrincipal("sp-bad", "a2", "TENANT_OWNED", None, <<"owner-1">>,
                     <<MalformedGrant("ADMIN")>>, <<>>, None, None)
\* allow-listed under ListsConfig, with a grant without its scope
SpMalformedAllowed ==
    ServicePrincipal("sp-bad-allowed", "a1", "TENANT_OWNED", None, <<"owner-1">>,
                     <<MalformedGrant("ADMIN")>>, <<>>, None, None)
\* a second record under the object id of SpExternal
SpSameId ==
    ServicePrincipal("sp-ext", "a2", "TENANT_OWNED", None, <<"owner-1">>,
                     <<>>, <<>>, None, None)

SnapshotIdentities == {SpFirstParty, SpAllowed, SpExternal, SpUserConsent,
                       SpOrphan, SpExternalMedium, SpClean, SpMalformed,
                       SpMalformedAllowed, SpSameId}

Init ==
    /\ config \in {DefaultConfig, ListsConfig}
    /\ InitTranslator({DefaultDoc, MissingDoc})
    /\ service_principals \in BoundedSeq(SnapshotIdentities, MaxSPs)
    /\ sign_in_data_available \in BOOLEAN
    /\ InitResult

Next == ScoreAll \/ Detect

Spec == Init /\ [][Next]_vars

(***************************************************************************)
(* get_high_impact_permissions.  The rules dict is walked in insertion     *)
(* order: the order in which _load_rules first stored each key.            *)
(***************************************************************************)
RECURSIVE Dedup(_, _)
Dedup(seq, seen) ==
    IF seq = <<>> THEN <<>>
    ELSE IF Head(seq) \in seen THEN Dedup(Tail(seq), seen)
    ELSE <<Head(seq)>> \o Dedup(Tail(seq), seen \cup {Head(seq)})

\* the keys of the dict a completed load of doc leaves, in insertion order
KeyOrder(doc) ==
    IF doc.kind # "ok" THEN <<>>
    ELSE LET f == Flatten(doc.data)
         IN Dedup([i \in DOMAIN f |-> Lower(f[i].entry.name)], {})

\* sorted(results, key=lambda x: x[1].impact_score, reverse=True): stable
RECURSIVE SortByImpactDescending(_)
SortByImpactDescending(results) ==
    IF results = <<>> THEN <<>>
    ELSE LET i == CHOOSE k \in 1..Len(results) :
                     /\ \A j \in 1..Len(results) :
                           results[k][2].impact_score >= results[j][2].impact_score
                     /\ \A j \in 1..(k - 1) :
                           results[j][2].impact_score # results[k][2].impact_score
         IN <<results[i]>> \o SortByImpactDescending(SubSeq(results, 1, i - 1)
                                       \o SubSeq(results, i + 1, Len(results)))

\* rule.get("impact_score", 0) >= min_score, then translate(perm_name); the
\* search for the original casing finds the lower-cased key itself
get_high_impact_permissions(rs, order, min_score) ==
    LET selected == SelectSeq(order, LAMBDA key :
                        (IF IsNone(rs[key].impact_score) THEN 0
                         ELSE rs[key].impact_score[1]) >= min_score)
        results == [i \in DOMAIN selected |->
                       <<selected[i], TranslateIn(rs, selected[i])>>]
    IN SortByImpactDescending(results)

(***************************************************************************)
(* get_blast_radius_report.  A row keeps the fields computed from the      *)
(* identity and the finding; sp_name and resource_apis, which are read off *)
(* display names and resource ids, are left out.                           *)
(***************************************************************************)
\* sp_map = {sp.object_id: sp for sp in service_principals}: the last
\* identity of the list under each object id
InSpMap(sps, object_id) == \E i \in DOMAIN sps : sps[i].object_id = object_id

sp_map(sps, object_id) ==
    sps[CHOOSE i \in DOMAIN sps :
            /\ sps[i].object_id = object_id
            /\ \A j \in DOMAIN sps : sps[j].object_id = object_id => j <= i]

BlastRadiusRow(sp, finding) ==
    [sp_id |-> sp.object_id,
     app_id |-> sp.app_id,
     affected_users |-> consent_user_count(sp),
     total_permissions |-> Cardinality(all_delegated_scopes(sp))
                               + Cardinality(all_app_role_values(sp)),
     severity |-> finding.severity]

\* variant: no seen set, one row per finding
RECURSIVE BlastRadiusRows_row_per_finding(_, _, _)
BlastRadiusRows_row_per_finding(findings, sps, seen_sps) ==
    IF findings = <<>> THEN <<>>
    ELSE LET finding == Head(findings)
             id == finding.service_principal_id
         IN IF ~InSpMap(sps, id)
            THEN BlastRadiusRows_row_per_finding(Tail(findings), sps, seen_sps)
            ELSE <<BlastRadiusRow(sp_map(sps, id), finding)>>
                     \o BlastRadiusRows_row_per_finding(Tail(findings), sps, seen_sps)

\* the loop over the findings, with the set seen_sps
RECURSIVE BlastRadiusRows(_, _, _)
BlastRadiusRows(findings, sps, seen_sps) ==
    IF findings = <<>> THEN <<>>
    ELSE LET finding == Head(findings)
             id == finding.service_principal_id
         IN IF id \in seen_sps
            THEN BlastRadiusRows(Tail(findings), sps, seen_sps)
            ELSE IF ~InSpMap(sps, id)
            THEN BlastRadiusRows(Tail(findings), sps, seen_sps \cup {id})
            ELSE <<BlastRadiusRow(sp_map(sps, id), finding)>>
                     \o BlastRadiusRows(Tail(findings), sps, seen_sps \cup {id})

\* results.sort(key=lambda x: x["affected_users"], reverse=True): stable
RECURSIVE SortByAffectedUsers(_)
SortByAffectedUsers(results) ==
    IF results = <<>> THEN <<>>
    ELSE LET i == CHOOSE k \in 1..Len(results) :
                     /\ \A j \in 1..Len(results) :
                           results[k].affected_users >= results[j].affected_users
                     /\ \A j \in 1..(k - 1) :
                           results[j].affected_users # results[k].affected_users
         IN <<results[i]>> \o SortByAffectedUsers(SubSeq(results, 1, i - 1)
                                    \o SubSeq(results, i + 1, Len(results)))

get_blast_radius_report(findings, sps) ==
    SortByAffectedUsers(BlastRadiusRows(findings, sps, {}))

\* the row of an identity with a grant without scope cannot be built
BlastRadiusRaises(findings, sps) ==
    \E i \in DOMAIN findings :
        /\ InSpMap(sps, findings[i].service_principal_id)
        /\ HasMalformedGrant(sp_map(sps, findings[i].service_principal_id))

(***************************************************************************)
(* SpecCatalog: the translator alone, translate and reload_rules.          *)
(***************************************************************************)
PermStrings == {"Directory.ReadWrite.All", "Mail.Read", "MAIL.READ", "mail.read",
                "User.Read", "offline_access", "Custom.Unknown.Scope",
                DEFAULT_ACCESS}

Translate(permission) ==
    /\ IsNone(raised)
    /\ translated' = Some(TranslateIn(rules, permission))
    /\ UNCHANGED <<rules, rules_path, config, service_principals,
                   sign_in_data_available, risk_scores, critical_count,
                   high_risk_count, shadow_findings, pc, raised, loading,
                   high_impact_permissions, blast_radius, previous_findings,
                   calculated_total>>

\* variant: the reload parses into the map without clearing it first
ReloadRules_no_clear(path) ==
    /\ IsNone(raised)
    /\ IsNone(loading)
    /\ rules_path' = IF IsNone(path) THEN rules_path ELSE path[1]
    /\ LET r == _load_rules(rules, rules_path')
       IN /\ rules' = r.rules
          /\ raised' = IF IsNone(r.raised) THEN None
                       ELSE Raised("reload_rules", r.raised[1])
    /\ UNCHANGED <<config, service_principals, sign_in_data_available,
                   risk_scores, critical_count, high_risk_count,
                   shadow_findings, translated, pc, loading,
                   high_impact_permissions, blast_radius, previous_findings,
                   calculated_total>>

\* reload_rules(rules_path=None): path is None or Some(document)
ReloadRules(path) ==
    /\ IsNone(raised)
    /\ IsNone(loading)
    /\ rules_path' = IF IsNone(path) THEN rules_path ELSE path[1]
    /\ LET r == _load_rules(EmptyRules, rules_path')
       IN /\ rules' = r.rules
          /\ raised' = IF IsNone(r.raised) THEN None
                       ELSE Raised("reload_rules", r.raised[1])
    /\ UNCHANGED <<config, service_principals, sign_in_data_available,
                   risk_scores, critical_count, high_risk_count,
                   shadow_findings, translated, pc, loading,
                   high_impact_permissions, blast_radius, previous_findings,
                   calculated_total>>

MinScores == {0, 20, 30, 31, 70, 101}

GetHighImpactPermissions(min_score) ==
    /\ IsNone(raised)
    /\ IsNone(loading)
    /\ high_impact_permissions' =
           Some([min_score |-> min_score,
                 results |-> get_high_impact_permissions(rules, KeyOrder(rules_path),
                                                         min_score)])
    /\ UNCHANGED <<rules, rules_path, config, service_principals,
                   sign_in_data_available, risk_scores, critical_count,
                   high_risk_count, shadow_findings, translated, pc, raised,
                   loading, blast_radius, previous_findings,
                   calculated_total>>

InitCatalog ==
    /\ config = DefaultConfig
    /\ InitTranslator(Docs)
    /\ service_principals = <<>>
    /\ sign_in_data_available = FALSE
    /\ InitResult

NextCatalog ==
    \/ \E p \in PermStrings : Translate(p)
    \/ \E path \in {None} \cup {Some(d) : d \in Docs} : ReloadRules(path)
    \/ \E m \in MinScores : GetHighImpactPermissions(m)

SpecCatalog == InitCatalog /\ [][NextCatalog]_vars

(***************************************************************************)
(* SpecReload: reload_rules running in one thread while another calls      *)
(* translate.  The class holds no lock, so the threads interleave between  *)
(* the statements of reload_rules and _load_rules: the clear(), then one   *)
(* store per entry.  loading is None while no reload is running, else the  *)
(* entries still to store and the document the map held before the call.   *)
(***************************************************************************)
\* self.rules[key] = {"resource": resource, **perm_data}
StoreEntry(rs, resource, e) ==
    LET key == Lower(e.name)
        rule == [resource |-> resource,
                 impact_score |-> e.data[1].impact_score,
                 category |-> e.data[1].category]
    IN [k \in (DOMAIN rs) \cup {key} |-> IF k = key THEN rule ELSE rs[k]]

\* reload_rules up to the parse in _load_rules: the path, clear(), the read
ReloadClear(path) ==
    /\ IsNone(raised)
    /\ IsNone(loading)
    /\ rules_path' = IF IsNone(path) THEN rules_path ELSE path[1]
    /\ rules' = EmptyRules
    /\ IF rules_path'.kind = "sequence"
       THEN /\ raised' = Raised("reload_rules", "AttributeError")
            /\ loading' = None
       ELSE /\ raised' = None
            /\ loading' = Some([previous |-> rules_path,
                                remaining |-> IF rules_path'.kind = "ok"
                                              THEN Flatten(rules_path'.data)
                                              ELSE <<>>])
    /\ UNCHANGED <<config, service_principals, sign_in_data_available,
                   risk_scores, critical_count, high_risk_count,
                   shadow_findings, translated, pc,
                   high_impact_permissions, blast_radius, previous_findings,
                   calculated_total>>

\* variant: an entry is consumed without being stored
ReloadStep_drops_entry ==
    /\ IsNone(raised)
    /\ ~IsNone(loading)
    /\ loading[1].remaining # <<>>
    /\ loading' = Some([loading[1] EXCEPT !.remaining = Tail(@)])
    /\ UNCHANGED <<rules, rules_path, config, service_principals,
                   sign_in_data_available, risk_scores, critical_count,
                   high_risk_count, shadow_findings, translated, pc, raised,
                   high_impact_permissions, blast_radius, previous_findings,
                   calculated_total>>

\* one iteration of the inner loop of _load_rules
ReloadStep ==
    /\ IsNone(raised)
    /\ ~IsNone(loading)
    /\ loading[1].remaining # <<>>
    /\ LET next == Head(loading[1].remaining) IN
       IF ~IsNone(EntryError(next.entry))
       THEN /\ raised' = Raised("reload_rules", EntryError(next.entry)[1])
            /\ loading' = None
            /\ UNCHANGED rules
       ELSE /\ rules' = StoreEntry(rules, next.resource, next.entry)
            /\ loading' = Some([loading[1] EXCEPT !.remaining = Tail(@)])
            /\ UNCHANGED raised
    /\ UNCHANGED <<rules_path, config, service_principals,
                   sign_in_data_available, risk_scores, critical_count,
                   high_risk_count, shadow_findings, translated, pc,
                   high_impact_permissions, blast_radius, previous_findings,
                   calculated_total>>

\* the loops are over: _load_rules and reload_rules return
ReloadReturn ==
    /\ IsNone(raised)
    /\ ~IsNone(loading)
    /\ loading[1].remaining = <<>>
    /\ loading' = None
    /\ UNCHANGED <<rules, rules_path, config, service_principals,
                   sign_in_data_available, risk_scores, critical_count,
                   high_risk_count, shadow_findings, translated, pc, raised,
                   high_impact_permissions, blast_radius, previous_findings,
                   calculated_total>>

InitReload ==
    /\ config = DefaultConfig
    /\ InitTranslator(Docs)
    /\ service_principals = <<>>
    /\ sign_in_data_available = FALSE
    /\ InitResult

NextReload ==
    \/ \E p \in PermStrings : Translate(p)
    \/ \E path \in {None} \cup {Some(d) : d \in Docs} : ReloadClear(path)
    \/ ReloadStep
    \/ ReloadReturn

SpecReload == InitReload /\ [][NextReload]_vars

(***************************************************************************)
(* SpecReport: detect, then get_blast_radius_report on the findings of     *)
(* detect or on the same findings in reverse order, against the identity   *)
(* list or the list without its first identity.                            *)
(***************************************************************************)
Reverse(seq) == [i \in DOMAIN seq |-> seq[Len(seq) + 1 - i]]

BlastRadiusReport(findings, sps) ==
    /\ IsNone(raised)
    /\ "detect" \in pc
    /\ IF BlastRadiusRaises(findings, sps)
       THEN /\ raised' = Raised("get_blast_radius_report", "AttributeError")
            /\ UNCHANGED blast_radius
       ELSE /\ blast_radius' =
                   Some([findings |-> findings,
                         service_principals |-> sps,
                         rows |-> get_blast_radius_report(findings, sps)])
            /\ UNCHANGED raised
    /\ UNCHANGED <<rules, rules_path, config, service_principals,
                   sign_in_data_available, risk_scores, critical_count,
                   high_risk_count, shadow_findings, translated, pc, loading,
                   high_impact_permissions, previous_findings,
                   calculated_total>>

InitReport ==
    /\ config \in {DefaultConfig, ListsConfig}
    /\ InitTranslator({DefaultDoc})
    /\ service_principals \in BoundedSeq(SnapshotIdentities, MaxSPs)
    /\ sign_in_data_available = TRUE
    /\ InitResult

NextReport ==
    \/ Detect
    \/ \E findings \in {shadow_findings, Reverse(shadow_findings)} :
          \E sps \in {service_principals,
                       IF service_principals = <<>> THEN <<>>
                       ELSE Tail(service_principals)} :
              BlastRadiusReport(findings, sps)

SpecReport == InitReport /\ [][NextReport]_vars

(***************************************************************************)
(* SpecRerun: detect, a reload of the catalog of the translator the        *)
(* detector holds, and detect again on the same AnalysisResult.            *)
(* previous_findings is the list the first call returned to its caller.    *)
(***************************************************************************)
\* the second call of detect: the identities are those of the first call,
\* which returned, so no rule raises
Redetect ==
    /\ IsNone(raised)
    /\ "detect" \in pc
    /\ IsNone(previous_findings)
    /\ previous_findings' = Some(shadow_findings)
    /\ shadow_findings' = detect(config, service_principals,
                                 sign_in_data_available)
    /\ UNCHANGED <<rules, rules_path, config, service_principals,
                   sign_in_data_available, risk_scores, critical_count,
                   high_risk_count, translated, pc, raised, loading,
                   high_impact_permissions, blast_radius, calculated_total>>

\* the files reload_rules is pointed at between the two calls: the full
\* catalog, no catalog at all, a catalog of two resources, and a file with a
\* malformed entry
RerunDocs == {DefaultDoc, MissingDoc, TwoResourceDoc, BodylessDoc}

InitRerun ==
    /\ config \in {DefaultConfig, ListsConfig}
    /\ InitTranslator({DefaultDoc, EdgeDoc, MissingDoc})
    /\ service_principals \in BoundedSeq(SnapshotIdentities, MaxSPs)
    /\ sign_in_data_available \in BOOLEAN
    /\ InitResult

NextRerun ==
    \/ Detect
    \/ "detect" \in pc /\ \E path \in RerunDocs : ReloadRules(Some(path))
    \/ Redetect

SpecRerun == InitRerun /\ [][NextRerun]_vars

(***************************************************************************)
(* SpecTotal: _calculate_total on a list of up to MaxFactors factors.      *)
(* calculated_total is the list handed in and the total returned.          *)
(***************************************************************************)
\* factors by score and weight (in tenths): contributions of -9, -1, 0, 0.3,
\* 0.9, 18, 67, 100, 100.5, 105, 250 and 375
TotalFactors ==
    {RiskFactor("factor", "", sw[1], sw[2]) :
        sw \in {<<-30, 3>>, <<-1, 10>>, <<0, 10>>, <<1, 3>>, <<3, 3>>, <<15, 12>>,
                <<67, 10>>, <<100, 10>>, <<67, 15>>, <<70, 15>>, <<250, 10>>,
                <<250, 15>>}}

FactorLists == BoundedSeq(TotalFactors, MaxFactors)

CalculateTotal(factors) ==
    /\ IsNone(raised)
    /\ IsNone(calculated_total)
    /\ calculated_total' = Some([factors |-> factors,
                                 total |-> _calculate_total(factors)])
    /\ UNCHANGED <<rules, rules_path, config, service_principals,
                   sign_in_data_available, risk_scores, critical_count,
                   high_risk_count, shadow_findings, translated, pc, raised,
                   loading, high_impact_permissions, blast_radius,
                   previous_findings>>

InitTotal ==
    /\ config = DefaultConfig
    /\ InitTranslator({DefaultDoc})
    /\ service_principals = <<>>
    /\ sign_in_data_available = TRUE
    /\ InitResult

NextTotal == \E factors \in FactorLists : CalculateTotal(factors)

SpecTotal == InitTotal /\ [][NextTotal]_vars

(***************************************************************************)
(* SpecDetect: detect on one identity, for identities that differ in the   *)
(* consent type and scopes of their grants, their roles, owners, publisher *)
(* and sign-in record.                                                     *)
(***************************************************************************)
DetectGrants == {Grant("ADMIN", <<"Mail.Read">>),
                 Grant("ADMIN", <<"User.Read", "offline_access">>),
                 Grant("USER", <<"Mail.Read", "offline_access">>),
                 Grant("USER", <<"User.Read">>),
                 Grant("UNKNOWN", <<"Mail.Read">>)}

DetectDomain ==
    {ServicePrincipal("sp-1", aid, ty, vp, ow, gs, rs, sia, None) :
        aid \in AppIds, ty \in AppTypes, vp \in {None, Some("pub-1")},
        ow \in {<<>>, <<"owner-1">>},
        gs \in BoundedSeq(DetectGrants, MaxGrants),
        rs \in {<<>>, <<Assignment(Some("Mail.Read"))>>,
                <<Assignment(Some("User.Read"))>>, <<Assignment(None)>>},
        sia \in {None, SignIn(FALSE, None), SignIn(TRUE, None),
                 SignIn(TRUE, Some(inactive_days_threshold)),
                 SignIn(TRUE, Some(inactive_days_threshold + 1))}}

InitDetect ==
    /\ config \in {DefaultConfig, ListsConfig}
    /\ InitTranslator({DefaultDoc})
    /\ service_principals \in {<<sp>> : sp \in DetectDomain}
    /\ sign_in_data_available \in BOOLEAN
    /\ InitResult

NextDetect == Detect

SpecDetect == InitDetect /\ [][NextDetect]_vars

(***************************************************************************)
(* SpecCredentials: score_all on one identity with a linked registration,  *)
(* for every short list of credentials and several critical windows.       *)
(***************************************************************************)
\* the configured credential_expiry_critical: any integer of the YAML file
CriticalWindows == {0, credential_expiry_critical, 90, 120}

WindowConfig(window) ==
    [DefaultConfig EXCEPT !.thresholds.credential_expiry_critical = window]

\* days until expiry: no end date, expired yesterday, today, and around the
\* windows
ExpiryDays == {None, Some(-1), Some(0), Some(credential_expiry_critical),
               Some(credential_expiry_critical + 1), Some(90), Some(91), Some(120)}

CredentialsDomain ==
    {ServicePrincipal("sp-1", aid, "TENANT_OWNED", None, <<"owner-1">>, <<>>, <<>>,
                      None, Application(pcs, kcs)) :
        aid \in AppIds,
        pcs \in BoundedSeq({Credential(d, None) : d \in ExpiryDays}, MaxCredentials),
        kcs \in BoundedSeq({Credential(d, None) : d \in ExpiryDays}, 1)}

InitCredentials ==
    /\ config \in {WindowConfig(w) : w \in CriticalWindows}
                   \cup {[WindowConfig(120) EXCEPT !.allowed_app_ids = {"a1"}]}
    /\ InitTranslator({DefaultDoc})
    /\ service_principals \in {<<sp>> : sp \in CredentialsDomain}
    /\ sign_in_data_available = TRUE
    /\ InitResult

NextCredentials == ScoreAll

SpecCredentials == InitCredentials /\ [][NextCredentials]_vars

(***************************************************************************)
(* Properties.                                                             *)
(***************************************************************************)
Scored == "score_all" \in pc
Detected == "detect" \in pc

SPs == Range(service_principals)
ScoreOf(sp) == risk_scores[sp.object_id]
IsAllowed(sp) == sp.app_id \in config.allowed_app_ids
IsDenied(sp) == sp.app_id \in config.denied_app_ids
IsFirstParty(sp) == sp.app_type = "FIRST_PARTY_MICROSOFT"

\* C1: every total_score is in 0..100, and for an identity that is not
\* allow-listed the level is decided by the total alone: Critical iff
\* total >= 80, High iff 60 <= total < 80, Medium iff 40 <= total < 60,
\* Low iff total < 40.
C1_TotalInRangeAndLevel ==
    Scored =>
        \A sp \in SPs :
            LET s == ScoreOf(sp) IN
            /\ s.total_score \in 0..100
            /\ ~IsAllowed(sp) =>
                  /\ s.risk_level = "Critical" <=> s.total_score >= 80
                  /\ s.risk_level = "High" <=> (60 <= s.total_score /\ s.total_score < 80)
                  /\ s.risk_level = "Medium" <=> (40 <= s.total_score /\ s.total_score < 60)
                  /\ s.risk_level = "Low" <=> s.total_score < 40

\* a scored identity whose weighted sum is above the cap of 120
C1_Witness ==
    /\ Scored
    /\ \E sp \in SPs :
          /\ ~IsAllowed(sp)
          /\ WeightedSum(ScoreOf(sp).factors) > 1200
          /\ ScoreOf(sp).total_score = 100
          /\ ScoreOf(sp).risk_level = "Critical"

\* C2: an allow-listed identity gets total 0, level Allowed and exactly one
\* factor, whatever else it carries and even if it is deny-listed too; no
\* other identity gets level Allowed.
C2_AllowListShortCircuit ==
    Scored =>
        \A sp \in SPs :
            LET s == ScoreOf(sp) IN
            /\ IsAllowed(sp) =>
                  /\ s.total_score = 0
                  /\ s.risk_level = "Allowed"
                  /\ Len(s.factors) = 1
            /\ ~IsAllowed(sp) => s.risk_level # "Allowed"

\* an identity on both lists, third-party, ownerless, with a user-consented
\* watch-list grant, scored Allowed
C2_Witness ==
    /\ Scored
    /\ \E sp \in SPs :
          /\ IsAllowed(sp) /\ IsDenied(sp)
          /\ sp.app_type = "THIRD_PARTY_MULTI_TENANT"
          /\ ~has_owners(sp)
          /\ has_user_consent(sp)
          /\ ~IsNone(sp.linked_application)
          /\ ScoreOf(sp).risk_level = "Allowed"

NonNegativeWeights(cfg) ==
    /\ cfg.scoring.application_permission_multiplier >= 0
    /\ cfg.scoring.delegated_permission_multiplier >= 0
    /\ cfg.scoring.user_consent_weight >= 0
    /\ cfg.scoring.no_verified_publisher_weight >= 0
    /\ cfg.scoring.external_multi_tenant_weight >= 0
    /\ cfg.scoring.first_party_microsoft_weight >= 0
    /\ cfg.scoring.no_owner_weight >= 0
    /\ cfg.scoring.unused_high_privilege_weight >= 0

WithoutDenyList(cfg) == [cfg EXCEPT !.denied_app_ids = {}]

\* C3: a deny-listed identity that is not allow-listed gets one Deny List
\* factor (100, weight 1.0) followed by every factor it would get without the
\* deny list; with non-negative weights its weighted sum is >= 100 and its
\* total exactly 100 (Critical) unless it is first-party.
C3_DenyListAccumulates ==
    (Scored /\ NonNegativeWeights(config)) =>
        \A sp \in SPs :
            (IsDenied(sp) /\ ~IsAllowed(sp)) =>
                LET s == ScoreOf(sp) IN
                /\ s.factors = <<RiskFactor("Deny List", "", 100, 10)>>
                      \o score_service_principal(rules, WithoutDenyList(config), sp).factors
                /\ ~IsFirstParty(sp) =>
                      /\ WeightedSum(s.factors) >= 1000
                      /\ s.total_score = 100
                      /\ s.risk_level = "Critical"
                /\ s.total_score < 100 => IsFirstParty(sp)

\* a deny-listed first-party identity whose total falls below 100
C3_Witness ==
    /\ Scored
    /\ \E sp \in SPs :
          /\ IsDenied(sp) /\ ~IsAllowed(sp) /\ IsFirstParty(sp)
          /\ Len(ScoreOf(sp).factors) >= 3
          /\ ScoreOf(sp).total_score < 100


\* The identity holds p through its i-th grant, admin-consented and carrying
\* p alone, and through nothing else.
HoldsOnlyAsAdminScope(sp, i, p) ==
    /\ sp.oauth2_permission_grants[i].consent_type = "ADMIN"
    /\ sp.oauth2_permission_grants[i].scope = <<p>>
    /\ \A j \in 1..Len(sp.oauth2_permission_grants) :
           j # i => p \notin Range(scopes(sp.oauth2_permission_grants[j]))
    /\ p \notin all_app_role_values(sp)

\* the same identity holding p as an application role instead of that grant
AsApplicationRole(sp, i, p) ==
    [sp EXCEPT !.oauth2_permission_grants =
                   SubSeq(@, 1, i - 1) \o SubSeq(@, i + 1, Len(@)),
               !.app_role_assignments = Append(@, Assignment(Some(p)))]

DefaultMultipliers(cfg) ==
    /\ cfg.scoring.application_permission_multiplier = application_permission_multiplier
    /\ cfg.scoring.delegated_permission_multiplier = delegated_permission_multiplier

RolePairs(sp) ==
    {<<i, p>> \in (1..Len(sp.oauth2_permission_grants)) \X PermStrings :
        HoldsOnlyAsAdminScope(sp, i, p)}

WithOwner(sp) == [sp EXCEPT !.owners = <<"owner-1">>]

\* C5 as stated: a non-allow-listed identity without owners always totals
\* strictly more than the otherwise identical identity with an owner.
C5_OwnerlessStrictlyHigher ==
    Scored =>
        \A sp \in SPs :
            (~IsAllowed(sp) /\ ~has_owners(sp)) =>
                ScoreOf(sp).total_score
                  > score_service_principal(rules, config, WithOwner(sp)).total_score

\* C5 amended: with a non-negative no_owner_weight a non-allow-listed
\* identity without owners never totals less than the otherwise identical
\* identity with an owner, and with no_owner_weight >= 0.1 it totals strictly
\* more when the owned total is below 100 and the ownerless total is above 0.
C5_OwnerlessHigherUnlessClamped ==
    (Scored /\ config.scoring.no_owner_weight >= 0) =>
        \A sp \in SPs :
            (~IsAllowed(sp) /\ ~has_owners(sp)) =>
                LET total_none == ScoreOf(sp).total_score
                    total_owned ==
                        score_service_principal(rules, config, WithOwner(sp)).total_score
                IN /\ total_none >= total_owned
                   /\ (/\ config.scoring.no_owner_weight >= 1
                       /\ total_owned < 100
                       /\ total_none > 0) => total_none > total_owned

\* an ownerless identity scored between the clamps, strictly above its owned
\* twin, under the weight 0.1
C5_Witness ==
    /\ Scored
    /\ config.scoring.no_owner_weight = 1
    /\ \E sp \in SPs :
          /\ ~IsAllowed(sp) /\ ~has_owners(sp)
          /\ ScoreOf(sp).total_score < 100
          /\ ScoreOf(sp).total_score
               > score_service_principal(rules, config, WithOwner(sp)).total_score


\* the <<finding_type, severity>> pairs detect reported for an identity
FindingSet(sp) ==
    {<<shadow_findings[i].finding_type, shadow_findings[i].severity>> :
        i \in {j \in 1..Len(shadow_findings) :
                 shadow_findings[j].service_principal_id = sp.object_id}}

\* C6 as stated (for the identities that are not allow-listed): a
\* first-party identity totals below 20 with level Low whatever permissions
\* it holds, and detect reports no finding for it.
C6_FirstPartyAlwaysLow ==
    (Scored /\ Detected) =>
        \A sp \in SPs :
            (IsFirstParty(sp) /\ ~IsAllowed(sp)) =>
                /\ ScoreOf(sp).total_score < 20
                /\ ScoreOf(sp).risk_level = "Low"
                /\ FindingSet(sp) = {}

\* third-party multi-tenant, not allow-listed, without owners, holding
\* Directory.ReadWrite.All through an admin-consented grant
ExternalOrphanWithDirectoryWrite(sp) ==
    /\ ~IsAllowed(sp)
    /\ sp.app_type = "THIRD_PARTY_MULTI_TENANT"
    /\ ~has_owners(sp)
    /\ \E i \in 1..Len(sp.oauth2_permission_grants) :
          /\ sp.oauth2_permission_grants[i].consent_type = "ADMIN"
          /\ "Directory.ReadWrite.All" \in Range(scopes(sp.oauth2_permission_grants[i]))

ExternalAndOrphaned ==
    {<<"external_delegated_high_impact", "High">>, <<"orphaned_privileged", "High">>}

\* telemetry, tenant-wide and of the identity, says it never signed in or
\* was last active more than the threshold ago
TelemetrySaysInactive(sp) ==
    /\ sign_in_data_available
    /\ ~IsNone(sp.sign_in_activity)
    /\ sp.sign_in_activity[1].data_available
    /\ \/ IsNone(sp.sign_in_activity[1].days_since_last_activity)
       \/ sp.sign_in_activity[1].days_since_last_activity[1]
             > config.thresholds.inactive_days_threshold

\* C9 as stated: for such an identity detect reports exactly
\* external_delegated_high_impact (High) and orphaned_privileged (High), and
\* its total is at least 60.
C9_ExactlyTwoFindingsAndHigh ==
    (Scored /\ Detected) =>
        \A sp \in SPs :
            ExternalOrphanWithDirectoryWrite(sp) =>
                /\ FindingSet(sp) = ExternalAndOrphaned
                /\ ScoreOf(sp).total_score >= 60

\* C9 amended: for such an identity the findings always include
\* external_delegated_high_impact (High) and orphaned_privileged (High), and
\* unverified_publisher_high_impact (High) too when its publisher is not
\* verified; they are exactly the first two when the publisher is verified,
\* no grant is user-consented, offline_access is not among its scopes and
\* telemetry does not say it is inactive; and under the default weights its
\* total is at least 60 (level High or Critical) when the catalog rates
\* Directory.ReadWrite.All at 35 or more.
C9_TwoFindingsPlusOtherRules ==
    (Scored /\ Detected) =>
        \A sp \in SPs :
            ExternalOrphanWithDirectoryWrite(sp) =>
                /\ ExternalAndOrphaned \subseteq FindingSet(sp)
                /\ ~has_verified_publisher(sp) =>
                      <<"unverified_publisher_high_impact", "High">> \in FindingSet(sp)
                /\ (/\ has_verified_publisher(sp)
                    /\ ~has_user_consent(sp)
                    /\ "offline_access" \notin all_delegated_scopes(sp)
                    /\ ~TelemetrySaysInactive(sp)) =>
                      FindingSet(sp) = ExternalAndOrphaned
                /\ (/\ config.scoring = ScoringWeights
                    /\ TranslateIn(rules, "Directory.ReadWrite.All").is_known
                    /\ TranslateIn(rules, "Directory.ReadWrite.All").impact_score >= 35) =>
                      /\ ScoreOf(sp).total_score >= 60
                      /\ ScoreOf(sp).risk_level \in {"High", "Critical"}

\* such an identity with a verified publisher, reported with exactly the two
\* findings and scored exactly 60 under a catalog rating the scope at 35
C9_Witness ==
    /\ Scored /\ Detected
    /\ \E sp \in SPs :
          /\ ExternalOrphanWithDirectoryWrite(sp)
          /\ has_verified_publisher(sp)
          /\ FindingSet(sp) = ExternalAndOrphaned
          /\ ScoreOf(sp).total_score = 60
          /\ ScoreOf(sp).risk_level = "High"


\* C7: no finding returned by detect has a first-party or allow-listed
\* identity as its subject, whatever that identity holds.
C7_SkippedHaveNoFindings ==
    Detected =>
        \A i \in 1..Len(shadow_findings) : \A sp \in SPs :
            sp.object_id = shadow_findings[i].service_principal_id =>
                ~(IsFirstParty(sp) \/ IsAllowed(sp))

\* a list of an allow-listed and a first-party identity that both meet the
\* triggers of the rules (watch-list scopes by user consent, no owners,
\* unverified publisher, never signed in): detect returns nothing
C7_Witness ==
    /\ Detected
    /\ shadow_findings = <<>>
    /\ \E sp \in SPs :
          /\ IsAllowed(sp) /\ ~IsFirstParty(sp)
          /\ ~HasMalformedGrant(sp)
          /\ Len(RunDetectionRules(config, sp, sign_in_data_available)) >= 6
    /\ \E sp \in SPs :
          /\ IsFirstParty(sp) /\ ~IsAllowed(sp)
          /\ ~HasMalformedGrant(sp)
          /\ Len(RunDetectionRules(config, sp, sign_in_data_available)) >= 5

Severities == {"Critical", "High", "Medium", "Low"}

\* the place of a rule in the order detect runs the six rules
RuleRank(finding_type) ==
    CASE finding_type \in {"external_delegated_high_impact", "external_delegated"} -> 1
      [] finding_type = "user_consent_high_impact" -> 2
      [] finding_type = "offline_access_high_impact" -> 3
      [] finding_type = "inactive_privileged" -> 4
      [] finding_type \in {"orphaned_privileged", "orphaned_with_permissions"} -> 5
      [] finding_type = "unverified_publisher_high_impact" -> 6

DistinctIdentities ==
    \A i, j \in 1..Len(service_principals) :
        service_principals[i].object_id = service_principals[j].object_id => i = j

\* the place of a finding's identity in the input list
IdentityIndex(f) ==
    CHOOSE k \in 1..Len(service_principals) :
        service_principals[k].object_id = f.service_principal_id

\* C8: the findings detect stores are ordered by severity rank (Critical,
\* High, Medium, Low), and findings of equal severity are in discovery order:
\* the order of their identities in the input list, then the rule order.
C8_SortedBySeverityStable ==
    Detected =>
        LET fs == shadow_findings
            found == CollectFindings(config, service_principals, sign_in_data_available)
        IN /\ \A i, j \in 1..Len(fs) :
                 i < j => severity_order(fs[i].severity) <= severity_order(fs[j].severity)
           /\ \A s \in Severities :
                 SelectSeq(fs, LAMBDA f : f.severity = s)
                   = SelectSeq(found, LAMBDA f : f.severity = s)
           /\ \A i \in 1..Len(fs) : fs[i].severity \in Severities
           /\ DistinctIdentities =>
                 \A i, j \in 1..Len(fs) :
                     (i < j /\ fs[i].severity = fs[j].severity) =>
                         \/ IdentityIndex(fs[i]) < IdentityIndex(fs[j])
                         \/ /\ IdentityIndex(fs[i]) = IdentityIndex(fs[j])
                            /\ RuleRank(fs[i].finding_type) < RuleRank(fs[j].finding_type)

\* findings of two identities that the sort had to reorder: a Medium finding
\* of the first identity discovered before a High finding of the second
C8_Witness ==
    /\ Detected
    /\ DistinctIdentities
    /\ Len(service_principals) >= 2
    /\ shadow_findings
         # CollectFindings(config, service_principals, sign_in_data_available)
    /\ \E i, j \in 1..Len(shadow_findings) :
          /\ i < j
          /\ shadow_findings[i].severity = "High"
          /\ shadow_findings[j].severity = "High"
          /\ IdentityIndex(shadow_findings[i]) < IdentityIndex(shadow_findings[j])
    /\ \E i \in 1..Len(shadow_findings) : shadow_findings[i].severity = "Medium"


\* C10: translate of a permission string that has no rule in the loaded
\* catalog (every string when the catalog is empty) returns a result with
\* is_known false, category Unknown and impact_score exactly 30.
C10_UnknownResolvesToThirty ==
    [][\A p \in PermStrings :
          (Translate(p) /\ Lower(p) \notin DOMAIN rules) =>
              /\ ~IsNone(translated')
              /\ translated'[1].permission = p
              /\ translated'[1].is_known = FALSE
              /\ translated'[1].category = "UNKNOWN"
              /\ translated'[1].impact_score = 30]_vars

\* a watch-list permission translated against an empty catalog
C10_Witness ==
    /\ rules = EmptyRules
    /\ ~IsNone(translated)
    /\ translated[1].permission = "Directory.ReadWrite.All"
    /\ ~translated[1].is_known
    /\ translated[1].impact_score = 30


\* C11: translate of two permission strings that are equal after
\* lower-casing returns the same is_known flag, category and impact_score,
\* whatever the catalog.
C11_TranslateIgnoresCase ==
    [][\A p, q \in PermStrings :
          (Translate(p) /\ Lower(p) = Lower(q)) =>
              LET other == TranslateIn(rules, q) IN
              /\ translated'[1].is_known = other.is_known
              /\ translated'[1].category = other.category
              /\ translated'[1].impact_score = other.impact_score]_vars

\* an upper-case spelling resolved through the rule loaded for Mail.Read
C11_Witness ==
    /\ ~IsNone(translated)
    /\ translated[1].permission = "MAIL.READ"
    /\ translated[1].is_known
    /\ translated[1].category = "DATA_EXFILTRATION"
    /\ translated[1].impact_score = 70


(***************************************************************************)
(* Catalog loading.                                                        *)
(***************************************************************************)
\* the document without its entries that have no key or no body
WellFormedEntries(perms) == SelectSeq(perms, LAMBDA e : IsNone(EntryError(e)))

WellFormed(doc) ==
    IF doc.kind = "ok"
    THEN [kind |-> "ok",
          data |-> [i \in DOMAIN doc.data |->
                       Resource(doc.data[i].resource, doc.data[i].is_dict,
                                WellFormedEntries(doc.data[i].permissions))]]
    ELSE [kind |-> "missing", data |-> <<>>]

HasMalformedEntry(doc) ==
    doc.kind = "ok" /\ \E i \in DOMAIN doc.data :
        \E j \in DOMAIN doc.data[i].permissions :
            ~IsNone(EntryError(doc.data[i].permissions[j]))

LoadCompleted == IsNone(raised) /\ IsNone(loading)

\* C12: loading the catalog never ends in a fatal error; a missing or
\* unparseable document yields the empty catalog and a parseable document
\* with a malformed entry yields the catalog of its well-formed entries.
C12_LoadNeverFatal ==
    /\ rules_path.kind \in {"missing", "unparseable"} =>
           IsNone(raised) /\ rules = EmptyRules
    /\ HasMalformedEntry(rules_path) =>
           /\ IsNone(raised)
           /\ rules = LoadRules(EmptyRules, WellFormed(rules_path))


\* the keys a document defines and, for a key, the fields of the last entry
\* that defines it
DocEntries(doc) == IF doc.kind = "ok" THEN Flatten(doc.data) ELSE <<>>

DocKeys(doc) ==
    {Lower(DocEntries(doc)[i].entry.name) : i \in DOMAIN DocEntries(doc)}

LastRule(doc, key) ==
    LET f == DocEntries(doc)
        defs == {j \in DOMAIN f : Lower(f[j].entry.name) = key}
        i == CHOOSE j \in defs : \A k \in defs : k <= j
    IN [resource |-> f[i].resource,
        impact_score |-> f[i].entry.data[1].impact_score,
        category |-> f[i].entry.data[1].category]

\* C13: after a load or reload that completed, the catalog holds exactly the
\* entries of the document last loaded: no key of an earlier document that
\* the new one lacks is left (it resolves as unknown), and a missing or
\* unparseable document leaves the catalog empty.
C13_ReloadReplacesWholesale ==
    LoadCompleted =>
        /\ DOMAIN rules = DocKeys(rules_path)
        /\ \A key \in DOMAIN rules : rules[key] = LastRule(rules_path, key)
        /\ rules_path.kind \in {"missing", "unparseable"} => DOMAIN rules = {}
        /\ \A p \in PermStrings :
               Lower(p) \notin DocKeys(rules_path) =>
                   ~TranslateIn(rules, p).is_known

\* offline_access was translated through a rule, then a document without it
\* was reloaded
C13_Witness ==
    /\ LoadCompleted
    /\ ~IsNone(translated)
    /\ translated[1].permission = "offline_access"
    /\ translated[1].is_known
    /\ rules_path = BoundaryDoc
    /\ "offline_access" \notin DOMAIN rules
    /\ ~TranslateIn(rules, "offline_access").is_known


(***************************************************************************)
(* Reload against a concurrent translate.                                  *)
(***************************************************************************)
\* the document the map held before the running reload, and the one it is
\* being loaded from
PreReloadDoc == IF IsNone(loading) THEN rules_path ELSE loading[1].previous

HasRuleInBoth(p) ==
    /\ Lower(p) \in DocKeys(WellFormed(PreReloadDoc))
    /\ Lower(p) \in DocKeys(WellFormed(rules_path))

\* the first n entries of a document, one group per entry
PrefixDoc(doc, n) ==
    [kind |-> "ok",
     data |-> [i \in 1..n |-> Resource(DocEntries(doc)[i].resource, TRUE,
                                       <<DocEntries(doc)[i].entry>>)]]

\* C14 as stated: a translate that interleaves with reload_rules sees the
\* complete catalog of before or of after the reload, so a permission with a
\* rule in both documents is never resolved as unknown.
C14_ReloadIsAtomic ==
    [][\A p \in PermStrings :
          (Translate(p) /\ HasRuleInBoth(p)) =>
              /\ translated'[1].is_known
              /\ translated'[1] \in
                     {TranslateIn(LoadRules(EmptyRules, PreReloadDoc), p),
                      TranslateIn(LoadRules(EmptyRules, rules_path), p)}]_vars

\* C14 amended: a translate that runs while no reload is in progress sees
\* the complete catalog of the document last loaded; one that runs during a
\* reload sees the cleared map refilled with a prefix of the new document's
\* entries, which may lack a rule both documents have.
C14_CompleteOnlyOutsideReload ==
    [][\A p \in PermStrings :
          Translate(p) =>
              IF IsNone(loading)
              THEN translated' =
                       Some(TranslateIn(LoadRules(EmptyRules, rules_path), p))
              ELSE \E n \in 0..Len(DocEntries(rules_path)) :
                       translated' =
                           Some(TranslateIn(LoadRules(EmptyRules,
                                                      PrefixDoc(rules_path, n)), p))]_vars

\* Mail.Read has a rule in the document before and in the document being
\* reloaded, and a translate during the reload resolved it as unknown
C14_Witness ==
    /\ ~IsNone(loading)
    /\ IsNone(raised)
    /\ loading[1].previous = DefaultDoc
    /\ rules_path = BoundaryDoc
    /\ loading[1].remaining # <<>>
    /\ ~IsNone(translated)
    /\ translated[1].permission = "Mail.Read"
    /\ ~translated[1].is_known
    /\ translated[1].impact_score = UNKNOWN_IMPACT


(***************************************************************************)
(* The high-impact listing.                                                *)
(***************************************************************************)
\* C15: get_high_impact_permissions returns exactly the catalog rules whose
\* impact score as translate reports it (30 when the rule omits the field)
\* is >= min_score, each once, by non-increasing impact score.
C15_HighImpactMatchesTranslate ==
    [][\A m \in MinScores :
          GetHighImpactPermissions(m) =>
              LET r == high_impact_permissions'[1].results IN
              /\ {r[i][1] : i \in DOMAIN r} =
                     {key \in DOMAIN rules :
                          TranslateIn(rules, key).impact_score >= m}
              /\ \A i, j \in DOMAIN r : r[i][1] = r[j][1] => i = j
              /\ \A i, j \in DOMAIN r :
                     i < j => r[i][2].impact_score >= r[j][2].impact_score]_vars


(***************************************************************************)
(* A malformed identity in the snapshot.                                   *)
(***************************************************************************)
Aborted(op) == ~IsNone(raised) /\ raised[1].op = op

WellFormedSPs == {sp \in SPs : ~HasMalformedGrant(sp)}

\* C16: with a malformed identity in the list, score_all and detect skip
\* only that identity and complete: the run does not abort and every
\* well-formed identity gets its score and its findings.
C16_MalformedIdentitySkipped ==
    /\ ~Aborted("score_all")
    /\ ~Aborted("detect")
    /\ Scored => \A sp \in WellFormedSPs : sp.object_id \in DOMAIN risk_scores
    /\ Detected => \A sp \in WellFormedSPs :
           FindingSet(sp) # {} \/
               RunDetectionRules(config, sp, sign_in_data_available) = <<>> \/
               IsSkipped(config, sp)


(***************************************************************************)
(* The aggregate score_all writes.                                         *)
(***************************************************************************)
EntriesAt(level) ==
    {k \in DOMAIN risk_scores : risk_scores[k].risk_level = level}

PositionsAt(level) ==
    {i \in 1..Len(service_principals) :
        score_service_principal(rules, config, service_principals[i]).risk_level
            = level}

\* the last place in the list of an object id
LastIndexOf(object_id) ==
    CHOOSE i \in 1..Len(service_principals) :
        /\ service_principals[i].object_id = object_id
        /\ \A j \in (i + 1)..Len(service_principals) :
               service_principals[j].object_id # object_id

\* C17 as stated: risk_scores holds every identity's own score and the two
\* counts are the numbers of Critical and of High entries of risk_scores,
\* also when two identities share an object id.
C17_CountsMatchEntries ==
    Scored =>
        /\ \A sp \in SPs :
               risk_scores[sp.object_id]
                   = score_service_principal(rules, config, sp)
        /\ critical_count = Cardinality(EntriesAt("Critical"))
        /\ high_risk_count = Cardinality(EntriesAt("High"))

\* C17 amended: risk_scores has one entry per object id, the score of the
\* last identity in the list with that id; the counts are taken per identity
\* of the list, so they equal the numbers of Critical and High entries when
\* the object ids are distinct and can exceed them otherwise.
C17_CountsPerListedIdentity ==
    Scored =>
        /\ DOMAIN risk_scores = {sp.object_id : sp \in SPs}
        /\ \A k \in DOMAIN risk_scores :
               risk_scores[k] = score_service_principal(rules, config,
                                    service_principals[LastIndexOf(k)])
        /\ critical_count = Cardinality(PositionsAt("Critical"))
        /\ high_risk_count = Cardinality(PositionsAt("High"))
        /\ DistinctIdentities =>
               /\ critical_count = Cardinality(EntriesAt("Critical"))
               /\ high_risk_count = Cardinality(EntriesAt("High"))
        /\ critical_count >= Cardinality(EntriesAt("Critical"))

\* the same Critical identity listed twice: one entry, counted twice
C17_Witness ==
    /\ Scored
    /\ Len(service_principals) = 2
    /\ service_principals[1] = service_principals[2]
    /\ Cardinality(DOMAIN risk_scores) = 1
    /\ Cardinality(EntriesAt("Critical")) = 1
    /\ critical_count = 2


(***************************************************************************)
(* The blast radius report.                                                *)
(***************************************************************************)
\* the place of the first finding about an object id
FirstSeen(findings, object_id) ==
    CHOOSE i \in 1..Len(findings) :
        /\ findings[i].service_principal_id = object_id
        /\ \A j \in 1..(i - 1) : findings[j].service_principal_id # object_id

\* C18: the report has at most one row per identity: one row for each
\* distinct subject id of the findings that is in the identity list, with
\* the severity of the first finding about it in the input (the most severe
\* one for a list produced by detect); rows are by non-increasing
\* affected-user count, ties in first-seen order.
C18_OneRowPerFlaggedIdentity ==
    ~IsNone(blast_radius) =>
        LET fs == blast_radius[1].findings
            ids == blast_radius[1].service_principals
            rows == blast_radius[1].rows
        IN /\ \A i, j \in DOMAIN rows : rows[i].sp_id = rows[j].sp_id => i = j
           /\ {rows[i].sp_id : i \in DOMAIN rows}
                  = {fs[i].service_principal_id : i \in DOMAIN fs}
                        \cap {ids[i].object_id : i \in DOMAIN ids}
           /\ \A i \in DOMAIN rows :
                  rows[i].severity = fs[FirstSeen(fs, rows[i].sp_id)].severity
           /\ fs = shadow_findings =>
                  \A i \in DOMAIN rows : \A k \in DOMAIN fs :
                      fs[k].service_principal_id = rows[i].sp_id =>
                          severity_order(rows[i].severity)
                              <= severity_order(fs[k].severity)
           /\ \A i, j \in DOMAIN rows :
                  i < j =>
                      \/ rows[i].affected_users > rows[j].affected_users
                      \/ /\ rows[i].affected_users = rows[j].affected_users
                         /\ FirstSeen(fs, rows[i].sp_id) < FirstSeen(fs, rows[j].sp_id)

\* two flagged identities with more than three findings between them, the
\* later-seen one with more affected users and so moved to the first row
C18_Witness ==
    /\ ~IsNone(blast_radius)
    /\ Len(blast_radius[1].rows) = 2
    /\ Len(blast_radius[1].findings) > 3
    /\ FirstSeen(blast_radius[1].findings, blast_radius[1].rows[1].sp_id)
           > FirstSeen(blast_radius[1].findings, blast_radius[1].rows[2].sp_id)
    /\ blast_radius[1].rows[1].affected_users
           > blast_radius[1].rows[2].affected_users


(***************************************************************************)
(* What the two engines write.                                             *)
(***************************************************************************)
Inputs == <<service_principals, sign_in_data_available, config, rules, rules_path>>

\* C19: score_all changes only risk_scores, critical_count and
\* high_risk_count, detect changes only shadow_findings, and neither changes
\* an identity, the configuration or the catalog; so once both have run, in
\* either order, the aggregate is the one determined by the snapshot.
C19_DisjointWrites ==
    /\ [][/\ ScoreAll => UNCHANGED <<shadow_findings, Inputs>>
          /\ Detect => UNCHANGED <<risk_scores, critical_count,
                                   high_risk_count, Inputs>>]_vars
    /\ []((Scored /\ Detected) =>
            LET r == score_all(rules, config, service_principals) IN
            /\ risk_scores = r.scores
            /\ critical_count = r.critical_count
            /\ high_risk_count = r.high_count
            /\ shadow_findings = detect(config, service_principals,
                                        sign_in_data_available))

\* both engines have run on a snapshot that yields scores and findings
C19_Witness ==
    /\ Scored
    /\ Detected
    /\ Len(service_principals) = 2
    /\ critical_count + high_risk_count > 0
    /\ Len(shadow_findings) > 1


(***************************************************************************)
(* The user-consent factor.                                                *)
(***************************************************************************)
UserConsentFactorsOf(score) ==
    SelectSeq(score.factors, LAMBDA f : f.name = "User Consent Present")

GrantsWithConsent(sp, consent_types) ==
    {i \in DOMAIN sp.oauth2_permission_grants :
        sp.oauth2_permission_grants[i].consent_type \in consent_types}

\* the identity with the consent type of its i-th grant replaced
WithConsentType(sp, i, consent_type) ==
    [sp EXCEPT !.oauth2_permission_grants[i].consent_type = consent_type]

FindingsOfType(sp, finding_type) ==
    {i \in DOMAIN shadow_findings :
        /\ shadow_findings[i].service_principal_id = sp.object_id
        /\ shadow_findings[i].finding_type = finding_type}

\* the scopes of the grants of sp whose consent type is one of consent_types
ScopesWithConsent(sp, consent_types) ==
    UNION {Range(sp.oauth2_permission_grants[i].scope) :
              i \in GrantsWithConsent(sp, consent_types)}

\* C21 as stated: a non-skipped identity gets exactly one High
\* user_consent_high_impact finding iff the scopes of its grants that are not
\* admin-consented (user or unknown consent type) intersect the watch-list.
C21_NonAdminConsentFinding ==
    Detected =>
        \A sp \in SPs :
            ~IsSkipped(config, sp) =>
                LET fs == FindingsOfType(sp, "user_consent_high_impact")
                    hit == ScopesWithConsent(sp, {"USER", "UNKNOWN"})
                               \cap HIGH_IMPACT_SCOPES
                IN IF hit # {} THEN Cardinality(fs) = 1 ELSE fs = {}

\* C21 (amended): a non-skipped identity gets exactly one High
\* user_consent_high_impact finding, listing the watch-list scopes it holds
\* through user-consented grants, iff the scopes of its user-consented grants
\* intersect the watch-list; scopes held only through admin-consented grants
\* or grants of unknown consent type never trigger the rule.
C21_UserConsentFindingOnly ==
    Detected =>
        \A sp \in SPs :
            ~IsSkipped(config, sp) =>
                LET fs == FindingsOfType(sp, "user_consent_high_impact")
                    hit == ScopesWithConsent(sp, {"USER"}) \cap HIGH_IMPACT_SCOPES
                IN IF hit # {}
                   THEN /\ Cardinality(fs) = 1
                        /\ \A i \in fs :
                              /\ shadow_findings[i].severity = "High"
                              /\ shadow_findings[i].affected_scopes = hit
                   ELSE fs = {}

\* detect ran on a non-skipped identity that holds a watch-list scope through
\* a user-consented grant, and reported the finding for it
C21_Witness ==
    /\ Detected
    /\ \E sp \in SPs :
          /\ ~IsSkipped(config, sp)
          /\ ScopesWithConsent(sp, {"USER"}) \cap HIGH_IMPACT_SCOPES # {}
          /\ Cardinality(FindingsOfType(sp, "user_consent_high_impact")) = 1

\* the factors of a score that carry the given name
FactorsNamed(score, name) == SelectSeq(score.factors, LAMBDA f : f.name = name)

\* the identity's own sign-in record is available and says that the last
\* activity is more than the configured threshold of days ago
InactiveBeyondThreshold(sp) ==
    /\ ~IsNone(sp.sign_in_activity)
    /\ sp.sign_in_activity[1].data_available
    /\ ~IsNone(sp.sign_in_activity[1].days_since_last_activity)
    /\ sp.sign_in_activity[1].days_since_last_activity[1]
           > config.thresholds.inactive_days_threshold

\* every permission the identity holds: delegated scopes and real roles
HeldPermissions(sp) ==
    all_delegated_scopes(sp) \cup {v \in all_app_role_values(sp) : IsRealRole(v)}

\* C22: for a non-allow-listed identity with telemetry available that is
\* inactive beyond the threshold, scoring emits the inactive-high-privilege
\* factor (score 25) iff the maximum catalog impact over all permissions it
\* holds, delegated scopes and application roles alike, is >= 70.
C22_InactiveFactorOverAllPermissions ==
    Scored =>
        \A sp \in SPs :
            (~IsAllowed(sp) /\ InactiveBeyondThreshold(sp)) =>
                LET fs == FactorsNamed(ScoreOf(sp), "Inactive High-Privilege")
                IN IF MaxImpact(rules, HeldPermissions(sp)) >= 70
                   THEN Len(fs) = 1 /\ fs[1].score = 25
                   ELSE fs = <<>>

\* C23: when the analysis-level flag saying sign-in telemetry was obtainable
\* is false, scoring emits no activity-based factor (neither never-used nor
\* inactive-high-privilege) and detect emits no inactive_privileged finding
\* for any identity, whatever the identity's own sign-in record says.
C23_FlagGatesActivity ==
    ~sign_in_data_available =>
        /\ Scored =>
              \A sp \in SPs :
                  /\ FactorsNamed(ScoreOf(sp), "Never Used") = <<>>
                  /\ FactorsNamed(ScoreOf(sp), "Inactive High-Privilege") = <<>>
        /\ Detected =>
              \A sp \in SPs : FindingsOfType(sp, "inactive_privileged") = {}

\* the scopes of every grant of sp
GrantedScopes(sp) == ScopesWithConsent(sp, {"ADMIN", "USER", "UNKNOWN"})

\* the role values of the role assignments of sp that carry one
RoleValues(sp) ==
    {sp.app_role_assignments[i].role_value[1] :
        i \in {j \in DOMAIN sp.app_role_assignments :
                 ~IsNone(sp.app_role_assignments[j].role_value)}}

\* the watch-list permissions sp holds as delegated scope or application role
WatchListHeld(sp) == (GrantedScopes(sp) \cup RoleValues(sp)) \cap HIGH_IMPACT_SCOPES

\* telemetry is available for sp itself
HasTelemetry(sp) ==
    ~IsNone(sp.sign_in_activity) /\ sp.sign_in_activity[1].data_available

NeverSignedIn(sp) == IsNone(sp.sign_in_activity[1].days_since_last_activity)

\* C24: a non-skipped identity gets exactly one High inactive_privileged
\* finding iff telemetry is available tenant-wide and for the identity, the
\* identity never signed in or its days since last activity are strictly more
\* than the configured threshold, and its delegated scopes and application
\* roles together intersect the watch-list.
C24_InactivePrivilegedFinding ==
    Detected =>
        \A sp \in SPs :
            ~IsSkipped(config, sp) =>
                LET fs == FindingsOfType(sp, "inactive_privileged")
                    inactive ==
                        /\ sign_in_data_available
                        /\ HasTelemetry(sp)
                        /\ \/ NeverSignedIn(sp)
                           \/ sp.sign_in_activity[1].days_since_last_activity[1]
                                  > config.thresholds.inactive_days_threshold
                IN IF inactive /\ WatchListHeld(sp) # {}
                   THEN /\ Cardinality(fs) = 1
                        /\ \A i \in fs : shadow_findings[i].severity = "High"
                   ELSE fs = {}

\* detect ran on a non-skipped identity that holds a watch-list permission
\* and was last active exactly threshold days ago, and reported no
\* inactive_privileged finding for it
C24_Witness ==
    /\ Detected
    /\ sign_in_data_available
    /\ \E sp \in SPs :
          /\ ~IsSkipped(config, sp)
          /\ HasTelemetry(sp)
          /\ sp.sign_in_activity[1].days_since_last_activity
                 = Some(config.thresholds.inactive_days_threshold)
          /\ WatchListHeld(sp) # {}
          /\ FindingsOfType(sp, "inactive_privileged") = {}

\* the publisher record of sp names a verified publisher
PublisherVerified(sp) ==
    ~IsNone(sp.verified_publisher) /\ sp.verified_publisher[1] # ""

\* the credentials of the linked registration of sp whose days until expiry
\* are in 0..window
CredentialsExpiringWithin(sp, window) ==
    LET app == sp.linked_application[1]
        creds == app.password_credentials \o app.key_credentials
    IN {i \in DOMAIN creds :
           /\ ~IsNone(creds[i].days_until_expiry)
           /\ 0 <= creds[i].days_until_expiry[1]
           /\ creds[i].days_until_expiry[1] <= window}

\* the factors with the given name all carry the given score and weight
AllCarry(fs, score, weight) ==
    \A i \in DOMAIN fs : fs[i].score = score /\ fs[i].weight = weight

\* C25: a non-allow-listed first-party identity gets exactly one trust factor
\* (score -30, weight first_party_microsoft_weight) and no unverified-
\* publisher, multi-tenant or unknown-origin factor even when its publisher
\* is unverified, while its ownership, activity and credential factors are
\* still evaluated; an identity of any other trust class gets the
\* unverified-publisher factor (15) iff its publisher is unverified, the
\* multi-tenant factor (10) iff it is third-party multi-tenant and the
\* unknown-origin factor (20) iff it is external-unknown, never both.
C25_TrustFactors ==
    Scored =>
        \A sp \in SPs :
            ~IsAllowed(sp) =>
                LET fp == FactorsNamed(ScoreOf(sp), "Microsoft First-Party")
                    nvp == FactorsNamed(ScoreOf(sp), "No Verified Publisher")
                    mt == FactorsNamed(ScoreOf(sp), "Third-Party Multi-Tenant")
                    uo == FactorsNamed(ScoreOf(sp), "Unknown Origin")
                IN IF IsFirstParty(sp)
                   THEN /\ Len(fp) = 1
                        /\ AllCarry(fp, -30, config.scoring.first_party_microsoft_weight)
                        /\ nvp = <<>> /\ mt = <<>> /\ uo = <<>>
                        /\ (Len(sp.owners) = 0)
                              <=> (Len(FactorsNamed(ScoreOf(sp), "No Owners")) = 1)
                        /\ (HasTelemetry(sp) /\ NeverSignedIn(sp)
                               /\ GrantedScopes(sp) \cup RoleValues(sp) # {})
                              <=> (Len(FactorsNamed(ScoreOf(sp), "Never Used")) = 1)
                        /\ ~IsNone(sp.linked_application) =>
                              (CredentialsExpiringWithin(sp,
                                   config.thresholds.credential_expiry_critical) # {}
                               <=> FactorsNamed(ScoreOf(sp), "Credential Expiring") # <<>>)
                   ELSE /\ fp = <<>>
                        /\ Len(nvp) = (IF PublisherVerified(sp) THEN 0 ELSE 1)
                        /\ AllCarry(nvp, 15, config.scoring.no_verified_publisher_weight)
                        /\ Len(mt) = (IF sp.app_type = "THIRD_PARTY_MULTI_TENANT"
                                      THEN 1 ELSE 0)
                        /\ AllCarry(mt, 10, config.scoring.external_multi_tenant_weight)
                        /\ Len(uo) = (IF sp.app_type = "EXTERNAL_UNKNOWN" THEN 1 ELSE 0)
                        /\ AllCarry(uo, 20, config.scoring.external_multi_tenant_weight)
                        /\ Len(mt) + Len(uo) <= 1

\* score_all ran on a non-allow-listed first-party identity with an
\* unverified publisher, no owner and a registration with a credential in
\* the critical window: one trust factor, and the ownership and credential
\* factors next to it
C25_Witness ==
    /\ Scored
    /\ \E sp \in SPs :
          /\ ~IsAllowed(sp)
          /\ IsFirstParty(sp)
          /\ ~PublisherVerified(sp)
          /\ Len(FactorsNamed(ScoreOf(sp), "Microsoft First-Party")) = 1
          /\ FactorsNamed(ScoreOf(sp), "No Owners") # <<>>
          /\ FactorsNamed(ScoreOf(sp), "Credential Expiring") # <<>>

\* C26: for every configured critical window W >= 0 and every
\* non-allow-listed identity with a linked registration, each credential of
\* the registration whose days until expiry d satisfy 0 <= d <= W yields
\* exactly one credential-expiring factor (score 10, weight 1.2), and a
\* credential with d > W, already expired or without end date yields none.
C26_FactorPerCredentialInWindow ==
    Scored =>
        \A sp \in SPs :
            (~IsAllowed(sp) /\ ~IsNone(sp.linked_application)) =>
                LET fs == FactorsNamed(ScoreOf(sp), "Credential Expiring")
                    W == config.thresholds.credential_expiry_critical
                IN /\ Len(fs) = Cardinality(CredentialsExpiringWithin(sp, W))
                   /\ AllCarry(fs, 10, 12)

\* every finding of the given indices has the given severity
AllSeverity(fs, severity) ==
    \A i \in fs : shadow_findings[i].severity = severity

\* C27: for a non-skipped identity the orphaned rule yields at most one
\* finding: with zero owners, orphaned_privileged (High) if its delegated
\* scopes and application roles together intersect the watch-list, otherwise
\* orphaned_with_permissions (Medium) if it holds any permission, otherwise
\* nothing; with at least one owner neither, and never both.
C27_OrphanedRule ==
    Detected =>
        \A sp \in SPs :
            ~IsSkipped(config, sp) =>
                LET high == FindingsOfType(sp, "orphaned_privileged")
                    medium == FindingsOfType(sp, "orphaned_with_permissions")
                    held == GrantedScopes(sp) \cup RoleValues(sp)
                IN /\ Cardinality(high) + Cardinality(medium) <= 1
                   /\ AllSeverity(high, "High")
                   /\ AllSeverity(medium, "Medium")
                   /\ high # {} <=> (Len(sp.owners) = 0 /\ WatchListHeld(sp) # {})
                   /\ medium # {} <=> (/\ Len(sp.owners) = 0
                                       /\ WatchListHeld(sp) = {}
                                       /\ held # {})

\* detect ran on a non-skipped identity without owners that holds
\* permissions, one of them on the watch-list, and reported the High
\* finding and not the Medium one
C27_Witness ==
    /\ Detected
    /\ \E sp \in SPs :
          /\ ~IsSkipped(config, sp)
          /\ Len(sp.owners) = 0
          /\ WatchListHeld(sp) # {}
          /\ Cardinality(FindingsOfType(sp, "orphaned_privileged")) = 1
          /\ FindingsOfType(sp, "orphaned_with_permissions") = {}

\* {x} if the condition holds, and the empty set otherwise
When(condition, x) == IF condition THEN {x} ELSE {}

\* the trigger of each of the six rules, read off one identity alone: the
\* <<finding type, severity>> pairs due for it
ExpectedFindings(sp) ==
    LET external == sp.app_type \in {"THIRD_PARTY_MULTI_TENANT", "EXTERNAL_UNKNOWN"}
        inactive ==
            /\ sign_in_data_available
            /\ HasTelemetry(sp)
            /\ \/ NeverSignedIn(sp)
               \/ sp.sign_in_activity[1].days_since_last_activity[1]
                      > config.thresholds.inactive_days_threshold
        watched == GrantedScopes(sp) \cap HIGH_IMPACT_SCOPES
        held == GrantedScopes(sp) \cup RoleValues(sp)
    IN When(external /\ watched # {}, <<"external_delegated_high_impact", "High">>)
       \cup When(external /\ GrantedScopes(sp) # {} /\ watched = {},
                 <<"external_delegated", "Medium">>)
       \cup When(ScopesWithConsent(sp, {"USER"}) \cap HIGH_IMPACT_SCOPES # {},
                 <<"user_consent_high_impact", "High">>)
       \cup When("offline_access" \in GrantedScopes(sp) /\ watched # {},
                 <<"offline_access_high_impact", "Medium">>)
       \cup When(inactive /\ WatchListHeld(sp) # {}, <<"inactive_privileged", "High">>)
       \cup When(Len(sp.owners) = 0 /\ WatchListHeld(sp) # {},
                 <<"orphaned_privileged", "High">>)
       \cup When(Len(sp.owners) = 0 /\ WatchListHeld(sp) = {} /\ held # {},
                 <<"orphaned_with_permissions", "Medium">>)
       \cup When(~PublisherVerified(sp) /\ sp.app_type # "TENANT_OWNED"
                      /\ WatchListHeld(sp) # {},
                 <<"unverified_publisher_high_impact", "High">>)

\* the places of the findings reported for sp
FindingsFor(sp) ==
    {i \in DOMAIN shadow_findings :
        shadow_findings[i].service_principal_id = sp.object_id}

\* the call of detect has ended: it returned or it raised
DetectEnded == Detected \/ Aborted("detect")

\* C28: for every non-skipped identity, the findings detect reports for it
\* are the outputs of the six rules on that identity alone: every rule whose
\* trigger it meets contributes its one finding whatever the other rules
\* did (so between 0 and 6 findings), and which other identities are in the
\* list makes no difference.
C28_FindingsPerIdentityAlone ==
    (DetectEnded /\ DistinctIdentities) =>
        \A sp \in WellFormedSPs :
            ~IsSkipped(config, sp) =>
                /\ FindingSet(sp) = ExpectedFindings(sp)
                /\ Cardinality(FindingsFor(sp)) = Cardinality(ExpectedFindings(sp))
                /\ Cardinality(FindingsFor(sp)) <= 6

SumInTenths(factors) ==
    SumSeq([i \in DOMAIN factors |-> factors[i].score * factors[i].weight])

\* C30: with S the sum of score x weight over the factor list, the total is
\* S truncated toward zero when 0 <= S <= 100, 0 when S < 0 or the list is
\* empty, and exactly 100 for every S > 100; so the total never decreases
\* when S grows, and appending a factor with a non-negative contribution
\* never lowers it.
C30_TotalFromWeightedSum ==
    ~IsNone(calculated_total) =>
        LET factors == calculated_total[1].factors
            total == calculated_total[1].total
            S == SumInTenths(factors)
        IN /\ (factors = <<>> \/ S < 0) => total = 0
           /\ (0 <= S /\ S <= 1000) => total = S \div 10
           /\ S > 1000 => total = 100
           /\ \A other \in FactorLists :
                 SumInTenths(other) >= S => _calculate_total(other) >= total
           /\ \A f \in TotalFactors :
                 f.score * f.weight >= 0 =>
                     _calculate_total(Append(factors, f)) >= total

\* _calculate_total was handed a list whose weighted sum is above 300, where
\* the scaled excess passes the cap at 120, and returned 100
C30_Witness ==
    /\ ~IsNone(calculated_total)
    /\ SumInTenths(calculated_total[1].factors) > 3000
    /\ calculated_total[1].total = 100
====
